---- MODULE Spec2Model ----
(***************************************************************************)
(* Model of the TravelAgentAI recommendation core: the baseline and the    *)
(* enhanced compatibility scorers, the local ranking (find_top_packages),  *)
(* the online fallback (find_online_packages) and the decision that        *)
(* TravelAgent.generate_recommendations takes between them.                *)
(*                                                                         *)
(* Representation.  A Python str is a sequence of one-character strings,   *)
(* so that lower(), split(), strip(), `in` and int()/float() are computed  *)
(* on the characters.  A value read back from the CSV file is a str; a     *)
(* value produced by generate_sample_packages may be a Python number; the  *)
(* fields rating and reviews_count therefore hold a tagged value (PyStr /  *)
(* PyNum).  Ratings are carried in tenths (4.5 is 45).  A percentage is    *)
(* the exact fraction <<numerator, denominator>> of score*100 / max_score; *)
(* enhanced scores are carried in tenths as well (22.5 is 225).            *)
(***************************************************************************)
EXTENDS Integers, Sequences, FiniteSets, TLC

\* ------------------------------------------------------------------ bounds
MaxCatalog == 2
MaxTopN == 3
NumSample == 2
MaxStore == 1

\* the correction rounds of a preference dialogue
MaxRounds == 3

\* ------------------------------------------------------- string primitives
Digits == <<"0", "1", "2", "3", "4", "5", "6", "7", "8", "9">>

Whitespace == {" ", "\n", "\t"}

DigitValue ==
  "0" :> 0 @@ "1" :> 1 @@ "2" :> 2 @@ "3" :> 3 @@ "4" :> 4 @@
  "5" :> 5 @@ "6" :> 6 @@ "7" :> 7 @@ "8" :> 8 @@ "9" :> 9

IsDigit(c) == c \in DOMAIN DigitValue

\* the lower case letter of every upper case letter, and the converse
ToLower ==
  "A" :> "a" @@ "B" :> "b" @@ "C" :> "c" @@ "D" :> "d" @@ "E" :> "e" @@ "F" :> "f" @@
  "G" :> "g" @@ "H" :> "h" @@ "I" :> "i" @@ "J" :> "j" @@ "K" :> "k" @@ "L" :> "l" @@
  "M" :> "m" @@ "N" :> "n" @@ "O" :> "o" @@ "P" :> "p" @@ "Q" :> "q" @@ "R" :> "r" @@
  "S" :> "s" @@ "T" :> "t" @@ "U" :> "u" @@ "V" :> "v" @@ "W" :> "w" @@ "X" :> "x" @@
  "Y" :> "y" @@ "Z" :> "z"

ToUpper ==
  "a" :> "A" @@ "b" :> "B" @@ "c" :> "C" @@ "d" :> "D" @@ "e" :> "E" @@ "f" :> "F" @@
  "g" :> "G" @@ "h" :> "H" @@ "i" :> "I" @@ "j" :> "J" @@ "k" :> "K" @@ "l" :> "L" @@
  "m" :> "M" @@ "n" :> "N" @@ "o" :> "O" @@ "p" :> "P" @@ "q" :> "Q" @@ "r" :> "R" @@
  "s" :> "S" @@ "t" :> "T" @@ "u" :> "U" @@ "v" :> "V" @@ "w" :> "W" @@ "x" :> "X" @@
  "y" :> "Y" @@ "z" :> "Z"

LowerChar(c) == IF c \in DOMAIN ToLower THEN ToLower[c] ELSE c

IsLetter(c) == c \in DOMAIN ToLower \/ c \in DOMAIN ToUpper

\* str.lower()
RECURSIVE Lower(_)
Lower(s) ==
  IF s = <<>> THEN <<>>
  ELSE IF Len(s) = 1 THEN <<LowerChar(s[1])>>
  ELSE Lower(SubSeq(s, 1, Len(s) \div 2))
       \o Lower(SubSeq(s, Len(s) \div 2 + 1, Len(s)))

\* a in b  (substring test; the empty string is in every string)
IsSubstr(a, b) ==
  \E i \in 0..(Len(b) - Len(a)) : SubSeq(b, i + 1, i + Len(a)) = a

\* str.strip()
RECURSIVE LStrip(_)
LStrip(s) ==
  IF s # <<>> /\ Head(s) \in Whitespace THEN LStrip(Tail(s)) ELSE s

RECURSIVE RStrip(_)
RStrip(s) ==
  IF s # <<>> /\ s[Len(s)] \in Whitespace
    THEN RStrip(SubSeq(s, 1, Len(s) - 1))
    ELSE s

Strip(s) == LStrip(RStrip(s))

\* str.split(): the maximal runs of non-whitespace characters, in order
RECURSIVE SplitFrom(_, _, _)
SplitFrom(s, cur, acc) ==
  IF s = <<>>
    THEN IF cur = <<>> THEN acc ELSE Append(acc, cur)
    ELSE IF Head(s) \in Whitespace
      THEN SplitFrom(Tail(s), <<>>, IF cur = <<>> THEN acc ELSE Append(acc, cur))
      ELSE SplitFrom(Tail(s), Append(cur, Head(s)), acc)

Split(s) == SplitFrom(s, <<>>, <<>>)

\* any(word in text for word in words)
AnyWordIn(words, text) == \E i \in 1..Len(words) : IsSubstr(words[i], text)

\* ------------------------------------------------------- number conversion
PyStr(cs) == [tag |-> "str", chars |-> cs, num |-> 0]
PyNum(n) == [tag |-> "num", chars |-> <<>>, num |-> n]

Parsed(v) == [ok |-> TRUE, val |-> v]
ValueError == [ok |-> FALSE, val |-> 0]

RECURSIVE DigitsValue(_, _)
DigitsValue(s, acc) ==
  IF s = <<>> THEN acc ELSE DigitsValue(Tail(s), acc * 10 + DigitValue[Head(s)])

AllDigits(s) == s # <<>> /\ \A i \in 1..Len(s) : IsDigit(s[i])

\* int(str): surrounding whitespace is ignored, an optional sign, then digits
ParseInt(cs) ==
  LET t == Strip(cs)
      signed == t # <<>> /\ Head(t) \in {"+", "-"}
      body == IF signed THEN Tail(t) ELSE t
  IN IF AllDigits(body)
       THEN Parsed(IF signed /\ Head(t) = "-"
                     THEN 0 - DigitsValue(body, 0)
                     ELSE DigitsValue(body, 0))
       ELSE ValueError

\* float('nan') and float('inf') in the tenths floats are held in: NaN is a
\* value no decimal text parses to, and every comparison with it is false.
NaN == 0 - 2000000
Infinity == 1000000

NumLess(a, b) == a # NaN /\ b # NaN /\ a < b
NumEq(a, b) == a # NaN /\ b # NaN /\ a = b

\* the decimal text body, without its sign, in tenths
Decimal(body) ==
  LET dots == {i \in 1..Len(body) : body[i] = "."}
  IN IF dots = {}
       THEN IF AllDigits(body) THEN Parsed(10 * DigitsValue(body, 0))
            ELSE ValueError
       ELSE LET d == CHOOSE i \in dots : TRUE
                ip == SubSeq(body, 1, d - 1)
                fp == SubSeq(body, d + 1, Len(body))
            IN IF Cardinality(dots) = 1
                  /\ (ip = <<>> \/ AllDigits(ip))
                  /\ (fp = <<>> \/ AllDigits(fp))
                  /\ (ip # <<>> \/ fp # <<>>)
                 THEN Parsed(10 * DigitsValue(ip, 0)
                             + (IF fp = <<>> THEN 0 ELSE DigitValue[fp[1]]))
                 ELSE ValueError

\* float(str) in tenths: surrounding whitespace is ignored; an optional sign,
\* then nan, inf or infinity in any case, or digits with an optional point.
\* The texts of the model carry at most one digit after the point and no
\* exponent.
ParseFloat(cs) ==
  LET t == Strip(cs)
      signed == t # <<>> /\ Head(t) \in {"+", "-"}
      negative == signed /\ Head(t) = "-"
      body == IF signed THEN Tail(t) ELSE t
  IN IF Lower(body) = <<"n", "a", "n">> THEN Parsed(NaN)
     ELSE IF Lower(body) \in {<<"i", "n", "f">>, <<"i", "n", "f", "i", "n", "i", "t", "y">>}
       THEN Parsed(IF negative THEN 0 - Infinity ELSE Infinity)
     ELSE IF negative /\ Decimal(body).ok THEN Parsed(0 - Decimal(body).val)
     ELSE Decimal(body)

\* int(x) and float(x) of a field value that is a str or already a number
PyInt(v) == IF v.tag = "num" THEN Parsed(v.num) ELSE ParseInt(v.chars)
PyFloat(v) == IF v.tag = "num" THEN Parsed(v.num) ELSE ParseFloat(v.chars)

\* dict.get(key, default)
Get(d, key, default) == IF key \in DOMAIN d THEN d[key] ELSE default

Min(a, b) == IF a <= b THEN a ELSE b

\* ------------------------------------------------------ the baseline scorer
\* calculate_compatibility_score: six weighted factors.  Each factor adds its
\* weight to max_score and the points it earns to score.
EmptyStr == <<>>

\* DestinationMatching without the elif of lines 518-520
DestinationMatchingNoTokens(user_preferences, package) ==
  LET user_destination == Lower(Get(user_preferences, "destination", EmptyStr))
      package_destination == Lower(package.destination)
  IN IF IsSubstr(user_destination, package_destination) THEN 3 ELSE 0

DestinationMatching(user_preferences, package) ==
  LET user_destination == Lower(Get(user_preferences, "destination", EmptyStr))
      package_destination == Lower(package.destination)
  IN IF IsSubstr(user_destination, package_destination) THEN 3
     ELSE IF AnyWordIn(Split(user_destination), package_destination) THEN 2
     ELSE 0

BudgetMatching(user_preferences, package) ==
  LET user_budget == Lower(Get(user_preferences, "budget", EmptyStr))
      package_budget == Lower(package.budget)
  IN IF user_budget = package_budget THEN 3
     ELSE IF AnyWordIn(<<<<"b", "u", "d", "g", "e", "t">>, <<"c", "h", "e", "a", "p">>, <<"l", "o", "w">>>>, package_budget)
             /\ AnyWordIn(<<<<"b", "u", "d", "g", "e", "t">>, <<"c", "h", "e", "a", "p">>, <<"l", "o", "w">>, <<"a", "f", "f", "o", "r", "d", "a", "b", "l", "e">>>>, user_budget) THEN 2
     ELSE IF AnyWordIn(<<<<"l", "u", "x", "u", "r", "y">>, <<"p", "r", "e", "m", "i", "u", "m">>>>, package_budget)
             /\ AnyWordIn(<<<<"l", "u", "x", "u", "r", "y">>, <<"h", "i", "g", "h">>, <<"p", "r", "e", "m", "i", "u", "m">>, <<"e", "x", "p", "e", "n", "s", "i", "v", "e">>>>, user_budget) THEN 2
     ELSE IF IsSubstr(<<"m", "o", "d", "e", "r", "a", "t", "e">>, package_budget)
             /\ ~AnyWordIn(<<<<"b", "u", "d", "g", "e", "t">>, <<"l", "u", "x", "u", "r", "y">>, <<"c", "h", "e", "a", "p">>, <<"e", "x", "p", "e", "n", "s", "i", "v", "e">>>>, user_budget) THEN 1
     ELSE 0

\* DurationMatching with elif duration_diff < 2 (line 548)
DurationMatchingWithinOne(user_preferences, package) ==
  LET user_duration == ParseInt(Get(user_preferences, "duration", <<"0">>))
      package_duration == ParseInt(package.duration)
  IN IF ~user_duration.ok \/ ~package_duration.ok THEN 0
     ELSE LET diff == user_duration.val - package_duration.val
              duration_diff == IF diff < 0 THEN 0 - diff ELSE diff
          IN IF duration_diff = 0 THEN 2
             ELSE IF duration_diff < 2 THEN 1
             ELSE 0

DurationMatching(user_preferences, package) ==
  LET user_duration == ParseInt(Get(user_preferences, "duration", <<"0">>))
      package_duration == ParseInt(package.duration)
  IN IF ~user_duration.ok \/ ~package_duration.ok THEN 0
     ELSE LET diff == user_duration.val - package_duration.val
              duration_diff == IF diff < 0 THEN 0 - diff ELSE diff
          IN IF duration_diff = 0 THEN 2
             ELSE IF duration_diff <= 2 THEN 1
             ELSE 0

TravelStyleMatching(user_preferences, package) ==
  LET user_style == Lower(Get(user_preferences, "travel_style", EmptyStr))
      package_style == Lower(package.travel_style)
  IN IF user_style = package_style THEN 3
     ELSE IF IsSubstr(user_style, Lower(package.activities)) THEN 2
     ELSE 0


\* lines 570-572: the groups of sizes that earn one point together
GroupBuckets ==
  {{<<"s", "o", "l", "o">>, <<"1">>},
   {<<"c", "o", "u", "p", "l", "e">>, <<"2">>},
   {<<"f", "a", "m", "i", "l", "y">>, <<"g", "r", "o", "u", "p">>}}

\* GroupSizeMatching with the bucket test made a second if instead of an elif
GroupSizeMatchingBoth(user_preferences, package) ==
  LET user_group == Lower(Get(user_preferences, "group_size", EmptyStr))
      package_group == Lower(package.group_size)
  IN (IF user_group = package_group THEN 2 ELSE 0)
     + (IF \E g \in GroupBuckets : user_group \in g /\ package_group \in g
          THEN 1 ELSE 0)

GroupSizeMatching(user_preferences, package) ==
  LET user_group == Lower(Get(user_preferences, "group_size", EmptyStr))
      package_group == Lower(package.group_size)
  IN IF user_group = package_group THEN 2
     ELSE IF \E g \in GroupBuckets : user_group \in g /\ package_group \in g
       THEN 1
     ELSE 0

AccommodationMatching(user_preferences, package) ==
  LET user_accommodation ==
        Lower(Get(user_preferences, "accommodation_type", EmptyStr))
      package_accommodation == Lower(package.accommodation_type)
  IN IF user_accommodation = package_accommodation THEN 2
     ELSE IF IsSubstr(user_accommodation, package_accommodation)
             \/ IsSubstr(package_accommodation, user_accommodation) THEN 1
     ELSE 0

\* (score / max_score) * 100 as an exact fraction, 0 when max_score is 0
Percentage(score, max_score) ==
  IF max_score > 0 THEN <<score * 100, max_score>> ELSE <<0, 1>>

\* line 591: return percentage_score, score, max_score
ScoreResult(score, max_score) ==
  [percentage |-> Percentage(score, max_score),
   raw |-> score,
   max |-> max_score]

calculate_compatibility_score(user_preferences, package) ==
  LET score == DestinationMatching(user_preferences, package)
               + BudgetMatching(user_preferences, package)
               + DurationMatching(user_preferences, package)
               + TravelStyleMatching(user_preferences, package)
               + GroupSizeMatching(user_preferences, package)
               + AccommodationMatching(user_preferences, package)
      max_score == 3 + 3 + 2 + 3 + 2 + 2
  IN ScoreResult(score, max_score)

\* comparison of two exact fractions with positive denominators
FracLess(p, q) == p[1] * q[2] < q[1] * p[2]
FracEq(p, q) == p[1] * q[2] = q[1] * p[2]

\* ------------------------------------------------------ the enhanced scorer
\* Points and weights of the enhanced scorer are in tenths: 1.5 is 15.
Tenth == 10


RatingWeight(rating) ==
  IF rating = NaN THEN 0
  ELSE IF rating >= 45 THEN 20
  ELSE IF rating >= 40 THEN 15
  ELSE IF rating >= 35 THEN 10
  ELSE 0

ReviewsWeight(reviews) ==
  IF reviews >= 500 THEN 10
  ELSE IF reviews >= 200 THEN 7
  ELSE IF reviews >= 100 THEN 5
  ELSE 0

PriceCompetitiveness(user_preferences, package) ==
  LET user_budget == Lower(Get(user_preferences, "budget", EmptyStr))
      package_price == Lower(Get(package, "price_range", EmptyStr))
  IN IF IsSubstr(<<"$">>, package_price) /\ user_budget # EmptyStr
       THEN IF AnyWordIn(<<<<"b", "u", "d", "g", "e", "t">>, <<"c", "h", "e", "a", "p">>, <<"l", "o", "w">>>>, user_budget)
              THEN IF AnyWordIn(<<<<"3", "0", "0", "-", "6", "0", "0">>, <<"4", "0", "0", "-", "8", "0", "0">>, <<"5", "0", "0", "-", "9", "0", "0">>>>, package_price) THEN 20 ELSE 0
            ELSE IF AnyWordIn(<<<<"l", "u", "x", "u", "r", "y">>, <<"p", "r", "e", "m", "i", "u", "m">>, <<"h", "i", "g", "h">>>>, user_budget)
              THEN IF AnyWordIn(<<<<"2", "5", "0", "0", "-", "5", "0", "0", "0">>, <<"3", "0", "0", "0", "-", "6", "0", "0", "0">>, <<"4", "0", "0", "0", "-", "8", "0", "0", "0">>, <<"5", "0", "0", "0", "-", "1", "0", "0", "0", "0">>>>, package_price) THEN 20 ELSE 0
            ELSE IF AnyWordIn(<<<<"8", "0", "0", "-", "1", "5", "0", "0">>, <<"1", "0", "0", "0", "-", "1", "8", "0", "0">>, <<"1", "2", "0", "0", "-", "2", "0", "0", "0">>>>, package_price) THEN 20
            ELSE IF AnyWordIn(<<<<"1", "0", "0", "0", "-", "2", "0", "0", "0">>, <<"2", "0", "0", "0", "-", "5", "0", "0", "0">>>>, package_price) THEN 15
            ELSE 0
       ELSE 0

\* the season of a month, lower case (lines 404-411)
current_season(current_month) ==
  IF current_month \in {12, 1, 2} THEN <<"w", "i", "n", "t", "e", "r">>
  ELSE IF current_month \in {3, 4, 5} THEN <<"s", "p", "r", "i", "n", "g">>
  ELSE IF current_month \in {6, 7, 8} THEN <<"s", "u", "m", "m", "e", "r">>
  ELSE <<"f", "a", "l", "l">>

\* SeasonalRelevance without the elif of lines 415-416
SeasonalRelevanceNoAlternate(package, current_month) ==
  LET best_time == Lower(Get(package, "best_time", EmptyStr))
  IN IF best_time = current_season(current_month) \/ best_time = <<"y", "e", "a", "r", "-", "r", "o", "u", "n", "d">>
       THEN 10
     ELSE 0

SeasonalRelevance(package, current_month) ==
  LET best_time == Lower(Get(package, "best_time", EmptyStr))
  IN IF best_time = current_season(current_month) \/ best_time = <<"y", "e", "a", "r", "-", "r", "o", "u", "n", "d">>
       THEN 10
     ELSE IF best_time \in {<<"y", "e", "a", "r", "-", "r", "o", "u", "n", "d">>, <<"a", "l", "l", " ", "s", "e", "a", "s", "o", "n", "s">>} THEN 7
     ELSE 0

\* len(inclusions.split(',')) if inclusions else 0
inclusion_count(package) ==
  LET inclusions == Lower(Get(package, "includes", EmptyStr))
  IN IF inclusions = EmptyStr THEN 0
     ELSE Cardinality({i \in 1..Len(inclusions) : inclusions[i] = ","}) + 1

InclusionsQuality(package) ==
  IF inclusion_count(package) >= 7 THEN 15
  ELSE IF inclusion_count(package) >= 5 THEN 12
  ELSE IF inclusion_count(package) >= 3 THEN 8
  ELSE 0

\* The result of a scorer call: raised is TRUE when an exception leaves it.
Raised == [raised |-> TRUE, percentage |-> <<0, 1>>, raw |-> 0, max |-> 0]

EnhancedResult(score, max_score) ==
  [raised |-> FALSE,
   percentage |-> Percentage(score, max_score),
   raw |-> score,
   max |-> max_score]

\* EnhancedFrom without the max_score += 1.5 of line 419
EnhancedFromNoInclusionMax(base, rating, reviews, user_preferences, package, current_month) ==
  IF ~rating.ok \/ ~reviews.ok
    THEN Raised
    ELSE EnhancedResult(base.raw * Tenth
                        + RatingWeight(rating.val)
                        + ReviewsWeight(reviews.val)
                        + PriceCompetitiveness(user_preferences, package)
                        + SeasonalRelevance(package, current_month)
                        + InclusionsQuality(package),
                        base.max * Tenth + 20 + 10 + 20 + 10)

\* lines 350-436 once the base score, float(rating) and int(reviews_count)
\* are known
EnhancedFrom(base, rating, reviews, user_preferences, package, current_month) ==
  IF ~rating.ok \/ ~reviews.ok
    THEN Raised
    ELSE EnhancedResult(base.raw * Tenth
                        + RatingWeight(rating.val)
                        + ReviewsWeight(reviews.val)
                        + PriceCompetitiveness(user_preferences, package)
                        + SeasonalRelevance(package, current_month)
                        + InclusionsQuality(package),
                        base.max * Tenth + 20 + 10 + 20 + 10 + 15)

calculate_enhanced_compatibility_score(user_preferences, package, current_month) ==
  EnhancedFrom(calculate_compatibility_score(user_preferences, package),
               PyFloat(Get(package, "rating", PyNum(0))),
               PyInt(Get(package, "reviews_count", PyNum(0))),
               user_preferences, package, current_month)

\* ------------------------------------------------------ the package store
\* A row of travel_packages.csv as load_packages_from_csv returns it: every
\* one of the fourteen columns is a str.
Row(id, name, destination, budget, duration, travel_style, group_size, accommodation_type, activities, price_range, rating, reviews_count, includes, best_time) ==
  [package_id |-> id, package_name |-> name, destination |-> destination,
   budget |-> budget, duration |-> duration, travel_style |-> travel_style,
   group_size |-> group_size, accommodation_type |-> accommodation_type,
   activities |-> activities, price_range |-> price_range,
   rating |-> PyStr(rating), reviews_count |-> PyStr(reviews_count),
   includes |-> includes, best_time |-> best_time]

\* Rows the catalogs of the model are built from.  RowA and RowB differ in the
\* identifier only, RowC has the higher rating, RowD matches nothing, RowE has
\* a rating and RowF a duration and a review count that are no numbers.
PackagePool ==
  LET RowA == Row(<<"P", "K", "G", "0", "0", "1">>, <<"A", "r", "t", " ", "1">>, <<"P", "a", "r", "i", "s", " ", "F", "R">>, <<"l", "u", "x", "u", "r", "y">>, <<"7">>, <<"a", "r", "t">>, <<"c", "o", "u", "p", "l", "e">>,
                  <<"h", "o", "t", "e", "l">>, <<"M", "u", "s", "e", "u", "m", "s">>, <<"$", "3", "0", "0", "0", "-", "6", "0", "0", "0">>, <<"4", ".", "5">>, <<"3", "0", "0">>,
                  <<"H", "o", "t", "e", "l", ",", " ", "B", "u", "s">>, <<"S", "u", "m", "m", "e", "r">>)
      RowB == [RowA EXCEPT !.package_id = <<"P", "K", "G", "0", "0", "2">>]
      RowC == [RowA EXCEPT !.package_id = <<"P", "K", "G", "0", "0", "3">>, !.rating = PyStr(<<"4", ".", "9">>)]
      RowD == Row(<<"P", "K", "G", "0", "0", "4">>, <<"S", "p", "a", " ", "4">>, <<"O", "s", "l", "o">>, <<"b", "u", "d", "g", "e", "t">>, <<"1", "2">>, <<"s", "p", "a">>, <<"8">>,
                  <<"c", "a", "m", "p", "i", "n", "g">>, <<"Y", "o", "g", "a">>, <<"$", "4", "0", "0", "-", "8", "0", "0">>, <<"5", ".", "0">>, <<"9", "0">>,
                  <<"T", "e", "n", "t">>, <<"W", "i", "n", "t", "e", "r">>)
      RowE == Row(<<"P", "K", "G", "0", "0", "5">>, <<"A", "r", "t", " ", "5">>, <<"R", "o", "m", "e">>, <<"m", "o", "d", "e", "r", "a", "t", "e">>, <<"9">>, <<"a", "r", "t">>, <<"2">>,
                  <<"h", "o", "s", "t", "e", "l">>, <<"G", "a", "l", "l", "e", "r", "i", "e", "s">>, <<"$", "1", "0", "0", "0", "-", "2", "0", "0", "0">>, <<"N", "/", "A">>, <<"1", "5", "0">>,
                  <<"B", "e", "d", ",", " ", "B", "u", "s", ",", " ", "W", "i", "F", "i">>, <<"Y", "e", "a", "r", "-", "r", "o", "u", "n", "d">>)
      RowF == Row(<<"P", "K", "G", "0", "0", "6">>, <<"T", "o", "u", "r", " ", "6">>, <<"P", "a", "r", "i", "s">>, <<"P", "r", "e", "m", "i", "u", "m">>, <<"o", "n", "e", " ", "w", "e", "e", "k">>, <<"t", "o", "u", "r">>, <<"4">>,
                  <<"r", "e", "s", "o", "r", "t", " ", "h", "o", "t", "e", "l">>, <<"A", "r", "t", " ", "w", "a", "l", "k">>, <<"4", "0", "0", "0", "-", "8", "0", "0", "0">>, <<"5", ".", "0">>, <<"m", "a", "n", "y">>,
                  <<>>, <<"a", "l", "l", " ", "s", "e", "a", "s", "o", "n", "s">>)
  IN {RowA, RowB, RowC, RowD, RowE, RowF}

\* the sequences over S of length at most n
SeqsUpTo(S, n) == UNION {[1..k -> S] : k \in 0..n}

Catalogs == SeqsUpTo(PackagePool, MaxCatalog)

\* the catalogs a recommender holds once it is constructed
Stores == SeqsUpTo(PackagePool, MaxStore)

\* A preference set: the six keys bound to strings.
Prefs(destination, budget, duration, travel_style, group_size, accommodation_type) ==
  [destination |-> destination, budget |-> budget, duration |-> duration,
   travel_style |-> travel_style, group_size |-> group_size,
   accommodation_type |-> accommodation_type]

NotSpecified == <<"N", "o", "t", " ", "s", "p", "e", "c", "i", "f", "i", "e", "d">>

PreferencePool ==
  LET PrefsParis == Prefs(<<"P", "a", "r", "i", "s">>, <<"l", "u", "x", "u", "r", "y">>, <<"7">>, <<"a", "r", "t">>, <<"c", "o", "u", "p", "l", "e">>, <<"h", "o", "t", "e", "l">>)
      PrefsRome == Prefs(<<"O", "l", "d", " ", "R", "o", "m", "e">>, <<"c", "h", "e", "a", "p">>, <<"7", " ", "d", "a", "y", "s">>, <<"A", "r", "t">>, <<"f", "a", "m", "i", "l", "y">>, <<"h", "o", "s", "t", "e", "l">>)
      PrefsUnresolved == Prefs(NotSpecified, NotSpecified, NotSpecified,
                               NotSpecified, NotSpecified, NotSpecified)
  IN {PrefsParis, PrefsRome, PrefsUnresolved}

\* str(n) for n >= 0
RECURSIVE IntToStr(_)
IntToStr(n) ==
  IF n < 10 THEN <<Digits[n + 1]>>
  ELSE IntToStr(n \div 10) \o <<Digits[(n % 10) + 1]>>

\* f"{n:03d}" for n >= 0
Format03d(n) ==
  LET s == IntToStr(n)
  IN IF Len(s) >= 3 THEN s
     ELSE IF Len(s) = 2 THEN <<"0">> \o s
     ELSE <<"0", "0">> \o s

\* One outcome of the random draws generate_sample_packages makes for a
\* package: values of the lists of lines 39-68, a rating in tenths out of
\* round(uniform(3.5, 5.0), 1) and a review count out of randint(50, 1000).
Draw(name, destination, budget, duration, travel_style, group_size, accommodation_type, activities, price_range, rating, reviews_count, includes, best_time) ==
  [package_name |-> name, destination |-> destination, budget |-> budget,
   duration |-> duration, travel_style |-> travel_style,
   group_size |-> group_size, accommodation_type |-> accommodation_type,
   activities |-> activities, price_range |-> price_range,
   rating |-> PyNum(rating), reviews_count |-> PyNum(reviews_count),
   includes |-> includes, best_time |-> best_time]

SampleDraws ==
  {Draw(<<"L", "u", "x", "u", "r", "y", " ", "E", "s", "c", "a", "p", "e">>, <<"P", "a", "r", "i", "s", ",", " ", "F", "r", "a", "n", "c", "e">>, <<"l", "u", "x", "u", "r", "y">>, <<"7">>, <<"c", "u", "l", "t", "u", "r", "a", "l">>, <<"c", "o", "u", "p", "l", "e">>,
        <<"h", "o", "t", "e", "l">>, <<"C", "i", "t", "y", " ", "t", "o", "u", "r", "s", ",", " ", "M", "u", "s", "e", "u", "m", "s", ",", " ", "L", "o", "c", "a", "l", " ", "c", "u", "i", "s", "i", "n", "e">>, <<"$", "3", "0", "0", "0", "-", "6", "0", "0", "0">>, 45, 50,
        <<"A", "c", "c", "o", "m", "m", "o", "d", "a", "t", "i", "o", "n", ",", " ", "T", "r", "a", "n", "s", "p", "o", "r", "t", "a", "t", "i", "o", "n", ",", " ", "B", "r", "e", "a", "k", "f", "a", "s", "t", ",", " ", "W", "i", "F", "i">>, <<"Y", "e", "a", "r", "-", "r", "o", "u", "n", "d">>),
   Draw(<<"B", "u", "d", "g", "e", "t", " ", "T", "r", "a", "v", "e", "l", "e", "r">>, <<"R", "o", "m", "e", ",", " ", "I", "t", "a", "l", "y">>, <<"b", "u", "d", "g", "e", "t">>, <<"2", "1">>, <<"f", "a", "m", "i", "l", "y">>, <<"8">>,
        <<"c", "a", "m", "p", "i", "n", "g">>, <<"B", "u", "d", "g", "e", "t", " ", "t", "o", "u", "r", "s", ",", " ", "F", "r", "e", "e", " ", "w", "a", "l", "k", "i", "n", "g", " ", "t", "o", "u", "r", "s", ",", " ", "L", "o", "c", "a", "l", " ", "e", "x", "p", "e", "r", "i", "e", "n", "c", "e", "s">>,
        <<"$", "8", "0", "0", "-", "1", "5", "0", "0">>, 35, 1000,
        <<"A", "c", "c", "o", "m", "m", "o", "d", "a", "t", "i", "o", "n", ",", " ", "T", "r", "a", "n", "s", "p", "o", "r", "t", "a", "t", "i", "o", "n", ",", " ", "T", "o", "u", "r", " ", "g", "u", "i", "d", "e", ",", " ", "C", "i", "t", "y", " ", "t", "o", "u", "r", "s", ",", " ", "T", "r", "a", "v", "e", "l", " ", "k", "i", "t">>,
        <<"W", "i", "n", "t", "e", "r">>)}

\* generate_sample_packages numbering every package of the batch 1
generate_sample_packages_one(num_packages, draws) ==
  [i \in 1..num_packages |->
     [package_id |-> <<"P", "K", "G">> \o Format03d(1),
      package_name |-> draws[i].package_name \o <<" ">> \o IntToStr(i)]
     @@ draws[i]]

\* generate_sample_packages(num_packages) for the draws given per package
generate_sample_packages(num_packages, draws) ==
  [i \in 1..num_packages |->
     [package_id |-> <<"P", "K", "G">> \o Format03d(i),
      package_name |-> draws[i].package_name \o <<" ">> \o IntToStr(i)]
     @@ draws[i]]

\* the catalogs generate_sample_packages() can return
Samples ==
  {generate_sample_packages(NumSample, draws) :
     draws \in [1..NumSample -> SampleDraws]}

\* ------------------------------------------------------------ the ranking
\* the package records of the catalogs: rows of the file and sample packages
Scorable ==
  PackagePool \cup {s[i] : s \in Samples, i \in 1..NumSample}


\* Tuples (percentage, rating, reviews) are compared as Python compares them.
\* The first components that are not equal decide; a rating that is NaN is
\* neither equal to nor less than any rating.
KeyLess(a, b) ==
  \/ FracLess(a[1], b[1])
  \/ FracEq(a[1], b[1]) /\ NumLess(a[2], b[2])
  \/ FracEq(a[1], b[1]) /\ NumEq(a[2], b[2]) /\ a[3] < b[3]

\* list.sort(key=..., reverse=True) is stable: an element is placed behind
\* every element whose key is greater or equal, so that elements with equal
\* keys keep the order they had.
\* InsertDescending placing an element in front of the elements with an equal
\* key, as a reversed ascending sort does
RECURSIVE InsertBeforeEqual(_, _)
InsertBeforeEqual(sorted, entry) ==
  IF sorted = <<>> THEN <<entry>>
  ELSE IF ~KeyLess(entry.key, Head(sorted).key)
    THEN <<entry>> \o sorted
    ELSE <<Head(sorted)>> \o InsertBeforeEqual(Tail(sorted), entry)

RECURSIVE InsertDescending(_, _)
InsertDescending(sorted, entry) ==
  IF sorted = <<>> THEN <<entry>>
  ELSE IF KeyLess(Head(sorted).key, entry.key)
    THEN <<entry>> \o sorted
    ELSE <<Head(sorted)>> \o InsertDescending(Tail(sorted), entry)

RECURSIVE SortDescending(_, _)
SortDescending(entries, sorted) ==
  IF entries = <<>> THEN sorted
  ELSE SortDescending(Tail(entries), InsertDescending(sorted, Head(entries)))

\* seq[:n]
PySliceTo(seq, n) ==
  IF n >= 0 THEN SubSeq(seq, 1, Min(n, Len(seq)))
  ELSE SubSeq(seq, 1, Len(seq) + n)

RECURSIVE Items(_)
Items(entries) ==
  IF entries = <<>> THEN <<>> ELSE <<Head(entries).item>> \o Items(Tail(entries))

\* package_with_score = package: no copy is made
package_alias(package) == [alias |-> TRUE, dict |-> package]

\* package.copy(): a new dict (alias is FALSE) with the keys and values of
\* package; what is written to it afterwards does not reach package.
package_copy(package) == [alias |-> FALSE, dict |-> package]

\* lines 661-667: the score fields are written to the copy; original is the
\* record of the input list as the pass leaves it.
AnnotateTop(package, copy, s, kept) ==
  [kept |-> kept,
   original |->
     IF kept /\ copy.alias
       THEN [compatibility_score |-> s.percentage, raw_score |-> s.raw,
             max_score |-> s.max] @@ copy.dict
       ELSE package,
   scored |->
     [compatibility_score |-> s.percentage, raw_score |-> s.raw,
      max_score |-> s.max] @@ copy.dict]

\* AboveFloor with the floor tested as >= 0
AboveFloorNonNegative(s) == ~FracLess(s.percentage, <<0, 1>>)

\* AboveFloor with the floor at 50
AboveFloorHalf(s) == FracLess(<<50, 1>>, s.percentage)

\* line 661: if compatibility_score > 5
AboveFloor(s) == FracLess(<<5, 1>>, s.percentage)

KeepScored(package, s) ==
  AnnotateTop(package, package_copy(package), s, AboveFloor(s))

\* one pass of the loop of find_top_packages (lines 657-667)
ScorePackage(user_preferences, package) ==
  KeepScored(package, calculate_compatibility_score(user_preferences, package))

RECURSIVE ScoreAll(_, _)
ScoreAll(user_preferences, packages) ==
  IF packages = <<>> THEN <<>>
  ELSE <<ScorePackage(user_preferences, Head(packages))>>
       \o ScoreAll(user_preferences, Tail(packages))

RECURSIVE KeptScored(_)
KeptScored(passes) ==
  IF passes = <<>> THEN <<>>
  ELSE (IF Head(passes).kept THEN <<Head(passes).scored>> ELSE <<>>)
       \o KeptScored(Tail(passes))

RECURSIVE Originals(_)
Originals(passes) ==
  IF passes = <<>> THEN <<>>
  ELSE <<Head(passes).original>> \o Originals(Tail(passes))

\* TopKey without the rating
TopKeyNoRating(x) == <<x.compatibility_score, 0, 0>>

\* the key of line 670: (x['compatibility_score'], float(x['rating']))
TopKey(x) == <<x.compatibility_score, PyFloat(x.rating).val, 0>>

RECURSIVE TopEntries(_)
TopEntries(scored_packages) ==
  IF scored_packages = <<>> THEN <<>>
  ELSE <<[key |-> TopKey(Head(scored_packages)),
          item |-> Head(scored_packages)]>>
       \o TopEntries(Tail(scored_packages))

\* lines 669-672: the sort raises when float() of a rating does
SortAndSlice(scored_packages, top_n) ==
  IF \E i \in 1..Len(scored_packages) : ~PyFloat(scored_packages[i].rating).ok
    THEN [raised |-> TRUE, ret |-> <<>>]
    ELSE [raised |-> FALSE,
          ret |-> PySliceTo(Items(SortDescending(TopEntries(scored_packages),
                                                 <<>>)), top_n)]

NoList == [given |-> FALSE, list |-> <<>>]
GivenList(list) == [given |-> TRUE, list |-> list]

\* ListToScore without the generation of a sample catalog
ListToScoreNoSample(packages_arg, self_packages, sample) ==
  IF packages_arg.given THEN packages_arg.list ELSE self_packages

\* lines 647-653: the list that is scored
ListToScore(packages_arg, self_packages, sample) ==
  IF packages_arg.given THEN packages_arg.list
  ELSE IF self_packages = <<>> THEN sample
  ELSE self_packages

\* FindTopResult without self.packages = packages (line 653)
FindTopResultNotStored(ranked, passes, packages_arg, self_packages, packages) ==
  [raised |-> ranked.raised,
   ret |-> ranked.ret,
   regenerated |-> ~packages_arg.given /\ self_packages = <<>>,
   scored |-> packages,
   input |-> Originals(passes),
   self_packages |-> self_packages]

\* what find_top_packages leaves and returns (lines 647-672)
FindTopResult(ranked, passes, packages_arg, self_packages, packages) ==
  [raised |-> ranked.raised,
   ret |-> ranked.ret,
   regenerated |-> ~packages_arg.given /\ self_packages = <<>>,
   scored |-> packages,
   input |-> Originals(passes),
   self_packages |-> IF packages_arg.given THEN self_packages
                     ELSE Originals(passes)]

FindTopOver(passes, top_n, packages_arg, self_packages, packages) ==
  FindTopResult(SortAndSlice(KeptScored(passes), top_n), passes, packages_arg,
                self_packages, packages)

FindTopIn(user_preferences, packages, top_n, packages_arg, self_packages) ==
  FindTopOver(ScoreAll(user_preferences, packages), top_n, packages_arg,
              self_packages, packages)

\* find_top_packages(user_preferences, packages, top_n) on a recommender
\* whose catalog is self_packages; sample is what generate_sample_packages
\* returns if it is called.  The result names the value returned (ret),
\* whether an exception left the call (raised), the list that was scored
\* (scored), that list as the loop left it (input) and the catalog afterwards
\* (self_packages).
find_top_packages(user_preferences, packages_arg, top_n, self_packages, sample) ==
  FindTopIn(user_preferences,
            ListToScore(packages_arg, self_packages, sample),
            top_n, packages_arg, self_packages)

\* ------------------------------------------- the package generation reply
\* str.split(sep) for a non-empty separator: the text is cut at every
\* occurrence of sep, found from the left; start is where the current piece
\* begins and hits the places from start on where sep stands
RECURSIVE SplitOnFrom(_, _, _, _)
SplitOnFrom(s, sep, start, hits) ==
  IF hits = {} THEN <<SubSeq(s, start, Len(s))>>
  ELSE LET i == CHOOSE h \in hits : \A j \in hits : h <= j
       IN <<SubSeq(s, start, i - 1)>>
          \o SplitOnFrom(s, sep, i + Len(sep),
                         {j \in hits : j >= i + Len(sep)})

SplitOn(s, sep) ==
  SplitOnFrom(s, sep, 1,
              {i \in 1..(Len(s) - Len(sep) + 1) :
                 SubSeq(s, i, i + Len(sep) - 1) = sep})

\* str.replace(c, '') for a single character c
RECURSIVE RemoveChar(_, _)
RemoveChar(s, c) ==
  IF s = <<>> THEN <<>>
  ELSE (IF Head(s) = c THEN <<>> ELSE <<Head(s)>>) \o RemoveChar(Tail(s), c)

\* str.title(): a letter that follows no letter is put in upper case, every
\* other letter in lower case
RECURSIVE TitleFrom(_, _)
TitleFrom(s, after_letter) ==
  IF s = <<>> THEN <<>>
  ELSE <<IF after_letter THEN LowerChar(Head(s)) ELSE IF Head(s) \in DOMAIN ToUpper THEN ToUpper[Head(s)]
          ELSE Head(s)>>
       \o TitleFrom(Tail(s), IsLetter(Head(s)))

Title(s) == TitleFrom(s, FALSE)

\* lines 263-266: the text behind the first colon, stripped, without brackets
ValueOf(line, colon) ==
  Strip(RemoveChar(RemoveChar(Strip(SubSeq(line, colon + 1, Len(line))),
                              "["), "]"))

\* lines 263-267: the value of a line, 'Not specified' when it is empty
FieldOfLine(line) ==
  LET colon == CHOOSE i \in 1..Len(line) :
                 line[i] = ":" /\ \A j \in 1..(i - 1) : line[j] # ":"
      value == ValueOf(line, colon)
  IN IF value # <<>> THEN value ELSE NotSpecified

\* line 262: the line names the field and holds a colon
NamesField(line, field_name) ==
  IsSubstr(Lower(field_name), Lower(line)) /\ IsSubstr(<<":">>, line)

\* extract_field over the lines of a block: the value of the first line that
\* names the field and holds a colon; 'Not specified' if there is none or the
\* value is empty
RECURSIVE FirstField(_, _)
FirstField(lines, field_name) ==
  IF lines = <<>> THEN NotSpecified
  ELSE IF NamesField(Head(lines), field_name) THEN FieldOfLine(Head(lines))
  ELSE FirstField(Tail(lines), field_name)

get_activity_for_style(travel_style) ==
  LET style == Lower(travel_style)
  IN IF style = <<"c", "u", "l", "t", "u", "r", "a", "l">>
       THEN <<"M", "u", "s", "e", "u", "m", "s", ",", " ", "H", "i", "s", "t", "o", "r", "i", "c", "a", "l", " ", "s", "i", "t", "e", "s", ",", " ", "A", "r", "t", " ", "g", "a", "l", "l", "e", "r", "i", "e", "s", ",", " ", "C", "u", "l", "t", "u", "r", "a", "l", " ", "t", "o", "u", "r", "s">>
     ELSE IF style = <<"a", "d", "v", "e", "n", "t", "u", "r", "e">>
       THEN <<"H", "i", "k", "i", "n", "g", ",", " ", "R", "o", "c", "k", " ", "c", "l", "i", "m", "b", "i", "n", "g", ",", " ", "A", "d", "v", "e", "n", "t", "u", "r", "e", " ", "s", "p", "o", "r", "t", "s", ",", " ", "N", "a", "t", "u", "r", "e", " ", "e", "x", "p", "l", "o", "r", "a", "t", "i", "o", "n">>
     ELSE IF style = <<"r", "e", "l", "a", "x", "a", "t", "i", "o", "n">>
       THEN <<"S", "p", "a", " ", "t", "r", "e", "a", "t", "m", "e", "n", "t", "s", ",", " ", "B", "e", "a", "c", "h", " ", "a", "c", "t", "i", "v", "i", "t", "i", "e", "s", ",", " ", "Y", "o", "g", "a", ",", " ", "M", "e", "d", "i", "t", "a", "t", "i", "o", "n">>
     ELSE IF style = <<"b", "u", "s", "i", "n", "e", "s", "s">>
       THEN <<"B", "u", "s", "i", "n", "e", "s", "s", " ", "m", "e", "e", "t", "i", "n", "g", "s", ",", " ", "N", "e", "t", "w", "o", "r", "k", "i", "n", "g", " ", "e", "v", "e", "n", "t", "s", ",", " ", "C", "i", "t", "y", " ", "e", "x", "p", "l", "o", "r", "a", "t", "i", "o", "n", ",", " ", "F", "i", "n", "e", " ", "d", "i", "n", "i", "n", "g">>
     ELSE IF style = <<"r", "o", "m", "a", "n", "t", "i", "c">>
       THEN <<"R", "o", "m", "a", "n", "t", "i", "c", " ", "d", "i", "n", "n", "e", "r", "s", ",", " ", "C", "o", "u", "p", "l", "e", "s", " ", "s", "p", "a", ",", " ", "S", "u", "n", "s", "e", "t", " ", "t", "o", "u", "r", "s", ",", " ", "W", "i", "n", "e", " ", "t", "a", "s", "t", "i", "n", "g">>
     ELSE IF style = <<"f", "a", "m", "i", "l", "y">>
       THEN <<"F", "a", "m", "i", "l", "y", " ", "a", "c", "t", "i", "v", "i", "t", "i", "e", "s", ",", " ", "T", "h", "e", "m", "e", " ", "p", "a", "r", "k", "s", ",", " ", "K", "i", "d", "-", "f", "r", "i", "e", "n", "d", "l", "y", " ", "t", "o", "u", "r", "s", ",", " ", "I", "n", "t", "e", "r", "a", "c", "t", "i", "v", "e", " ", "m", "u", "s", "e", "u", "m", "s">>
     ELSE <<"C", "i", "t", "y", " ", "t", "o", "u", "r", "s", ",", " ", "L", "o", "c", "a", "l", " ", "e", "x", "p", "e", "r", "i", "e", "n", "c", "e", "s", ",", " ", "S", "i", "g", "h", "t", "s", "e", "e", "i", "n", "g">>

get_price_for_budget(budget) ==
  LET b == Lower(budget)
  IN IF b = <<"b", "u", "d", "g", "e", "t">> THEN <<"$", "4", "0", "0", "-", "8", "0", "0">>
     ELSE IF b = <<"m", "o", "d", "e", "r", "a", "t", "e">> THEN <<"$", "1", "0", "0", "0", "-", "1", "8", "0", "0">>
     ELSE IF b = <<"l", "u", "x", "u", "r", "y">> THEN <<"$", "3", "0", "0", "0", "-", "6", "0", "0", "0">>
     ELSE <<"$", "1", "0", "0", "0", "-", "1", "8", "0", "0">>

get_current_season(current_month) ==
  IF current_month \in {12, 1, 2} THEN <<"W", "i", "n", "t", "e", "r">>
  ELSE IF current_month \in {3, 4, 5} THEN <<"S", "p", "r", "i", "n", "g">>
  ELSE IF current_month \in {6, 7, 8} THEN <<"S", "u", "m", "m", "e", "r">>
  ELSE <<"F", "a", "l", "l">>

\* lines 275-280: a rating that is no float or lies outside [3.5, 5.0]
\* becomes '4.2'
ValidRating(rating) ==
  LET r == PyFloat(rating)
  IN IF ~r.ok THEN PyStr(<<"4", ".", "2">>)
     ELSE IF NumLess(r.val, 35) \/ NumLess(50, r.val) THEN PyStr(<<"4", ".", "2">>)
     ELSE rating

\* ValidReviews without the test of the range
ValidReviewsAnyInt(reviews_count) ==
  IF ~PyInt(reviews_count).ok THEN PyStr(<<"3", "0", "0">>) ELSE reviews_count

\* lines 283-288: a review count that is no int or lies outside [100, 1000]
\* becomes '300'
ValidReviews(reviews_count) ==
  LET r == PyInt(reviews_count)
  IN IF ~r.ok THEN PyStr(<<"3", "0", "0">>)
     ELSE IF r.val < 100 \/ r.val > 1000 THEN PyStr(<<"3", "0", "0">>)
     ELSE reviews_count

validate_package_data(package, current_month) ==
  [package EXCEPT
     !.rating = ValidRating(package.rating),
     !.reviews_count = ValidReviews(package.reviews_count),
     !.package_name =
        IF package.package_name = NotSpecified
          THEN Title(package.travel_style) \o <<" ", "E", "x", "p", "e", "r", "i", "e", "n", "c", "e", " ", "i", "n", " ">>
               \o package.destination
          ELSE package.package_name,
     !.activities =
        IF package.activities = NotSpecified
          THEN get_activity_for_style(package.travel_style)
          ELSE package.activities,
     !.price_range =
        IF package.price_range = NotSpecified
          THEN get_price_for_budget(package.budget)
          ELSE package.price_range,
     !.includes =
        IF package.includes = NotSpecified
          THEN <<"A", "c", "c", "o", "m", "m", "o", "d", "a", "t", "i", "o", "n", ",", " ", "T", "r", "a", "n", "s", "p", "o", "r", "t", "a", "t", "i", "o", "n", ",", " ">> \o package.travel_style
               \o <<" ", "a", "c", "t", "i", "v", "i", "t", "i", "e", "s", ",", " ", "T", "r", "a", "v", "e", "l", " ", "i", "n", "s", "u", "r", "a", "n", "c", "e">>
          ELSE package.includes,
     !.best_time =
        IF package.best_time = NotSpecified
          THEN get_current_season(current_month)
          ELSE package.best_time]

\* urllib.parse.quote: letters, digits and _ . - ~ / are kept, every other
\* character is replaced by its percent code
PercentCode(c) ==
  IF c = " " THEN <<"%", "2", "0">>
  ELSE IF c = "," THEN <<"%", "2", "C">>
  ELSE IF c = "$" THEN <<"%", "2", "4">>
  ELSE IF c = ":" THEN <<"%", "3", "A">>
  ELSE IF c = "[" THEN <<"%", "5", "B">>
  ELSE IF c = "]" THEN <<"%", "5", "D">>
  ELSE IF c = "\n" THEN <<"%", "0", "A">>
  ELSE <<"%", "3", "F">>

RECURSIVE Quote(_)
Quote(s) ==
  IF s = <<>> THEN <<>>
  ELSE (IF IsLetter(Head(s)) \/ IsDigit(Head(s)) \/ Head(s) \in {"_", ".", "-", "~", "/"}
          THEN <<Head(s)>>
          ELSE PercentCode(Head(s)))
       \o Quote(Tail(s))

BookingSites ==
  {"expedia", "booking_com", "agoda", "trip_advisor", "kayak",
   "makemytrip", "cleartrip", "goibibo"}

\* generate_booking_links: a URL is held as the site whose template it
\* fills and the text that fills it: the quoted destination, which the three
\* sites of lines 108-110 put in lower case with ' ' and ',' rewritten.
RECURSIVE Slug(_)
Slug(s) ==
  IF s = <<>> THEN <<>>
  ELSE (IF Head(s) = " " THEN <<"-">>
        ELSE IF Head(s) = "," THEN <<>>
        ELSE <<Head(s)>>)
       \o Slug(Tail(s))

generate_booking_links(package) ==
  LET encoded_destination == Quote(package.destination)
  IN [site \in BookingSites |->
        [site |-> site,
         filled |-> IF site \in {"makemytrip", "cleartrip", "goibibo"}
                      THEN Slug(Lower(encoded_destination))
                      ELSE encoded_destination]]

\* get_random_booking_site_url for the site random.choice selects
get_random_booking_site_url(package, selected_site) ==
  generate_booking_links(package)[selected_site]

\* ------------------------------------------------------ the online fallback
OnlineBlockLimit == 3

\* What the chat completion call of get_packages_from_openai comes to: it
\* raises, or its message content is None, or it is a text.
Reply(text) == [kind |-> "text", text |-> text]

\* lines 223-239: the package built from the i-th block, whose lines every
\* extract_field call looks through
BuildFromLines(lines, i, user_preferences) ==
  [package_id |-> <<"O", "N", "L", "I", "N", "E">> \o Format03d(i),
   package_name |-> FirstField(lines, <<"p", "a", "c", "k", "a", "g", "e", "_", "n", "a", "m", "e">>),
   destination |-> Get(user_preferences, "destination", <<"U", "n", "k", "n", "o", "w", "n", " ", "D", "e", "s", "t", "i", "n", "a", "t", "i", "o", "n">>),
   budget |-> Get(user_preferences, "budget", <<"m", "o", "d", "e", "r", "a", "t", "e">>),
   duration |-> Get(user_preferences, "duration", <<"7">>),
   travel_style |-> Get(user_preferences, "travel_style", <<"r", "e", "l", "a", "x", "a", "t", "i", "o", "n">>),
   group_size |-> Get(user_preferences, "group_size", <<"2">>),
   accommodation_type |-> Get(user_preferences, "accommodation_type", <<"h", "o", "t", "e", "l">>),
   activities |-> FirstField(lines, <<"a", "c", "t", "i", "v", "i", "t", "i", "e", "s">>),
   price_range |-> FirstField(lines, <<"p", "r", "i", "c", "e", "_", "r", "a", "n", "g", "e">>),
   rating |-> PyStr(FirstField(lines, <<"r", "a", "t", "i", "n", "g">>)),
   reviews_count |-> PyStr(FirstField(lines, <<"r", "e", "v", "i", "e", "w", "s", "_", "c", "o", "u", "n", "t">>)),
   includes |-> FirstField(lines, <<"i", "n", "c", "l", "u", "d", "e", "s">>),
   best_time |-> FirstField(lines, <<"b", "e", "s", "t", "_", "t", "i", "m", "e">>)]

\* BuildPackage with the defaults of lines 226-231 in place of the preferences
BuildPackageDefaults(block, i, user_preferences) ==
  BuildFromLines(SplitOn(block, <<"\n">>), i, <<>>)

BuildPackage(block, i, user_preferences) ==
  BuildFromLines(SplitOn(block, <<"\n">>), i, user_preferences)

\* line 245: package['source'] = self.get_random_booking_site_url(package)
WithSource(package, selected_site) ==
  [source |-> get_random_booking_site_url(package, selected_site)] @@ package

\* line 222: package_blocks[:3]
FirstBlocks(package_blocks) ==
  SubSeq(package_blocks, 1, Min(OnlineBlockLimit, Len(package_blocks)))

\* line 220: response_text.split('Package ')[1:]
PackageBlocks(response_text) == Tail(SplitOn(response_text, <<"P", "a", "c", "k", "a", "g", "e", " ">>))

RECURSIVE PackagesFrom(_, _, _, _, _)
PackagesFrom(blocks, i, user_preferences, current_month, sites) ==
  IF i > Len(blocks) THEN <<>>
  ELSE <<WithSource(validate_package_data(
                      BuildPackage(blocks[i], i, user_preferences),
                      current_month),
                    sites[i])>>
       \o PackagesFrom(blocks, i + 1, user_preferences, current_month, sites)

\* lines 222-247: for i, block in enumerate(package_blocks[:3], 1)
PackagesOf(blocks, user_preferences, current_month, sites) ==
  PackagesFrom(blocks, 1, user_preferences, current_month, sites)

\* parse_openai_response on a text; sites[i] is the site random.choice
\* selects for the source of the i-th package
parse_openai_response(response_text, user_preferences, current_month, sites) ==
  PackagesOf(FirstBlocks(PackageBlocks(response_text)), user_preferences,
             current_month, sites)

\* get_packages_from_openai: an error of the call is raised again (line
\* 212); a content that is no text makes parse_openai_response return the
\* empty list (line 252)
get_packages_from_openai(user_preferences, outcome, current_month, sites) ==
  IF outcome.kind = "raises" THEN [raised |-> TRUE, packages |-> <<>>]
  ELSE IF outcome.kind = "none" THEN [raised |-> FALSE, packages |-> <<>>]
  ELSE [raised |-> FALSE,
        packages |-> parse_openai_response(outcome.text, user_preferences,
                                           current_month, sites)]

\* CaughtSearch without the except clause
UncaughtSearch(ai_packages) == ai_packages

\* lines 139-142: except Exception ... return []
CaughtSearch(ai_packages) ==
  [raised |-> FALSE,
   packages |-> IF ai_packages.raised THEN <<>> ELSE ai_packages.packages]

\* search_online_packages: the empty list without a client (line 137) and
\* when get_packages_from_openai raises (line 142)
search_online_packages(user_preferences, client, outcome, current_month, sites) ==
  IF ~client THEN [raised |-> FALSE, packages |-> <<>>]
  ELSE CaughtSearch(get_packages_from_openai(user_preferences, outcome,
                                             current_month, sites))

\* AnnotateOnline with the raw and the max score written under the key of the
\* other
AnnotateOnlineSwapped(package, copy, s, booking_links) ==
  [raised |-> s.raised,
   original |->
     IF copy.alias
       THEN [enhanced_compatibility_score |-> s.percentage,
             enhanced_raw_score |-> s.max, enhanced_max_score |-> s.raw,
             booking_links |-> booking_links] @@ copy.dict
       ELSE package,
   scored |->
     [enhanced_compatibility_score |-> s.percentage,
      enhanced_raw_score |-> s.max, enhanced_max_score |-> s.raw,
      booking_links |-> booking_links] @@ copy.dict]

\* lines 617-621: the enhanced score fields and the booking links are written
\* to the copy
AnnotateOnline(package, copy, s, booking_links) ==
  [raised |-> s.raised,
   original |->
     IF copy.alias
       THEN [enhanced_compatibility_score |-> s.percentage,
             enhanced_raw_score |-> s.raw, enhanced_max_score |-> s.max,
             booking_links |-> booking_links] @@ copy.dict
       ELSE package,
   scored |->
     [enhanced_compatibility_score |-> s.percentage,
      enhanced_raw_score |-> s.raw, enhanced_max_score |-> s.max,
      booking_links |-> booking_links] @@ copy.dict]

\* one pass of the loop of find_online_packages (lines 614-623)
ScoreOnlinePackage(user_preferences, package, current_month) ==
  AnnotateOnline(package, package_copy(package),
                 calculate_enhanced_compatibility_score(user_preferences,
                                                        package, current_month),
                 generate_booking_links(package))

RECURSIVE ScoreAllOnline(_, _, _)
ScoreAllOnline(user_preferences, online_packages, current_month) ==
  IF online_packages = <<>> THEN <<>>
  ELSE <<ScoreOnlinePackage(user_preferences, Head(online_packages),
                            current_month)>>
       \o ScoreAllOnline(user_preferences, Tail(online_packages),
                         current_month)

\* the key of lines 628-632
OnlineKey(x) ==
  <<x.enhanced_compatibility_score, PyFloat(x.rating).val,
    PyInt(x.reviews_count).val>>

RECURSIVE OnlineEntries(_)
OnlineEntries(passes) ==
  IF passes = <<>> THEN <<>>
  ELSE <<[key |-> OnlineKey(Head(passes).scored),
          item |-> Head(passes).scored]>>
       \o OnlineEntries(Tail(passes))

\* an exception leaves the loop or the sort
OnlineError(passes) ==
  \E i \in 1..Len(passes) :
    \/ passes[i].raised
    \/ ~PyFloat(passes[i].scored.rating).ok
    \/ ~PyInt(passes[i].scored.reviews_count).ok

\* lines 611-640
FindOnlineOver(passes, online_packages, top_n) ==
  [raised |-> OnlineError(passes),
   ret |-> IF online_packages = <<>> \/ OnlineError(passes) THEN <<>>
           ELSE PySliceTo(Items(SortDescending(OnlineEntries(passes), <<>>)),
                          top_n),
   found |-> online_packages,
   input |-> Originals(passes)]

\* line 609 has returned or raised
FindOnlineFrom(searched, user_preferences, top_n, current_month) ==
  IF searched.raised
    THEN [raised |-> TRUE, ret |-> <<>>, found |-> <<>>, input |-> <<>>]
    ELSE FindOnlineOver(ScoreAllOnline(user_preferences, searched.packages,
                                       current_month),
                        searched.packages, top_n)

\* find_online_packages(user_preferences, top_n) on a recommender with or
\* without a client, for what the collaborator comes to, the month of
\* datetime.now() and the sites random.choice selects.  The result names the
\* value returned (ret), whether an exception left the call (raised), the
\* packages search_online_packages returned (found) and those packages as
\* the loop left them (input).
find_online_packages(user_preferences, top_n, client, outcome, current_month, sites) ==
  FindOnlineFrom(search_online_packages(user_preferences, client, outcome,
                                        current_month, sites),
                 user_preferences, top_n, current_month)

\* ------------------------------------------------------------------ inputs
\* Texts the collaborator may answer with: no block, one block with every
\* field, blocks with fields left out or in brackets, four blocks that tie on
\* the percentage, ratings and review counts that are no numbers or out of
\* range, and a rating that is not a number (NaN).
CollaboratorOutcomes ==
  LET ReplyNothing == Reply(<<"S", "o", "r", "r", "y", ",", " ", "I", " ", "f", "o", "u", "n", "d", " ", "n", "o", "t", "h", "i", "n", "g", ".">>)
      ReplyOne ==
        Reply(<<"P", "a", "c", "k", "a", "g", "e", " ", "1", ":", "\n", "p", "a", "c", "k", "a", "g", "e", "_", "n", "a", "m", "e", ":", " ", "[", "L", "o", "u", "v", "r", "e", " ", "D", "a", "y", "s", "]", "\n", "r", "a", "t", "i", "n", "g", ":", " ", "4", ".", "8", "\n", "r", "e", "v", "i", "e", "w", "s", "_", "c", "o", "u", "n", "t", ":", " ", "6", "5", "0", "\n", "p", "r", "i", "c", "e", "_", "r", "a", "n", "g", "e", ":", " ", "$", "3", "0", "0", "0", "-", "6", "0", "0", "0", "\n", "i", "n", "c", "l", "u", "d", "e", "s", ":", " ", "H", "o", "t", "e", "l", ",", " ", "B", "u", "s", ",", " ", "G", "u", "i", "d", "e", "\n", "b", "e", "s", "t", "_", "t", "i", "m", "e", ":", " ", "Y", "e", "a", "r", "-", "r", "o", "u", "n", "d", "\n">>)
      ReplyTwo ==
        Reply(<<"H", "e", "r", "e", " ", "y", "o", "u", " ", "g", "o", ".", "\n", "P", "a", "c", "k", "a", "g", "e", " ", "1", ":", "\n", "r", "a", "t", "i", "n", "g", ":", " ", "4", ".", "2", "\n", "r", "e", "v", "i", "e", "w", "s", "_", "c", "o", "u", "n", "t", ":", " ", "1", "2", "0", "\n", "P", "a", "c", "k", "a", "g", "e", " ", "2", ":", "\n", "R", "a", "t", "i", "n", "g", ":", " ", "[", "9", ".", "9", "]", "\n", "r", "e", "v", "i", "e", "w", "s", "_", "c", "o", "u", "n", "t", ":", " ", "l", "o", "t", "s", "\n", "b", "e", "s", "t", "_", "t", "i", "m", "e", ":", " ", "a", "l", "l", " ", "s", "e", "a", "s", "o", "n", "s", "\n">>)
      ReplyFour ==
        Reply(<<"P", "a", "c", "k", "a", "g", "e", " ", "1", ":", "\n", "r", "a", "t", "i", "n", "g", ":", " ", "4", ".", "6", "\n", "r", "e", "v", "i", "e", "w", "s", "_", "c", "o", "u", "n", "t", ":", " ", "2", "5", "0", "\n", "P", "a", "c", "k", "a", "g", "e", " ", "2", ":", "\n", "r", "a", "t", "i", "n", "g", ":", " ", "4", ".", "8", "\n", "r", "e", "v", "i", "e", "w", "s", "_", "c", "o", "u", "n", "t", ":", " ", "2", "5", "0", "\n", "P", "a", "c", "k", "a", "g", "e", " ", "3", ":", "\n", "r", "a", "t", "i", "n", "g", ":", " ", "4", ".", "8", "\n", "r", "e", "v", "i", "e", "w", "s", "_", "c", "o", "u", "n", "t", ":", " ", "3", "0", "0", "\n", "P", "a", "c", "k", "a", "g", "e", " ", "4", ":", "\n", "r", "a", "t", "i", "n", "g", ":", " ", "5", ".", "0", "\n">>)
      ReplyClamp ==
        Reply(<<"P", "a", "c", "k", "a", "g", "e", " ", "1", ":", "\n", "r", "a", "t", "i", "n", "g", ":", " ", "2", ".", "0", "\n", "r", "e", "v", "i", "e", "w", "s", "_", "c", "o", "u", "n", "t", ":", " ", "5", "0", "\n", "P", "a", "c", "k", "a", "g", "e", " ", "2", ":", "\n", "r", "a", "t", "i", "n", "g", ":", " ", "g", "r", "e", "a", "t", "\n", "r", "e", "v", "i", "e", "w", "s", "_", "c", "o", "u", "n", "t", ":", " ", "5", "0", "0", "0", "\n", "P", "a", "c", "k", "a", "g", "e", " ", "3", ":", "\n", "r", "a", "t", "i", "n", "g", ":", " ", "3", ".", "5", "\n", "r", "e", "v", "i", "e", "w", "s", "_", "c", "o", "u", "n", "t", ":", " ", "1", "0", "0", "0", "\n">>)
      ReplyNaN ==
        Reply(<<"P", "a", "c", "k", "a", "g", "e", " ", "1", ":", "\n", "r", "a", "t", "i", "n", "g", ":", " ", "N", "a", "N", "\n", "r", "e", "v", "i", "e", "w", "s", "_", "c", "o", "u", "n", "t", ":", " ", "6", "5", "0", "\n", "p", "r", "i", "c", "e", "_", "r", "a", "n", "g", "e", ":", " ", "$", "3", "0", "0", "0", "-", "6", "0", "0", "0", "\n", "P", "a", "c", "k", "a", "g", "e", " ", "2", ":", "\n", "r", "a", "t", "i", "n", "g", ":", " ", "4", ".", "8", "\n", "r", "e", "v", "i", "e", "w", "s", "_", "c", "o", "u", "n", "t", ":", " ", "6", "5", "0", "\n", "p", "r", "i", "c", "e", "_", "r", "a", "n", "g", "e", ":", " ", "$", "1", "0", "0", "-", "2", "0", "0", "\n">>)
  IN {[kind |-> "raises", text |-> <<>>], [kind |-> "none", text |-> <<>>],
      ReplyNothing, ReplyOne, ReplyTwo, ReplyFour,
      ReplyClamp, ReplyNaN}

\* months datetime.now().month is drawn from
SampleMonths == {1, 7}

TopNs == 0..MaxTopN

DefaultTopN == 3

\* the draws that matter to a call: a sample catalog when one is generated, a
\* collaborator outcome when there is a client, a month and one site per
\* package when there is a text to parse
SamplesFor(packages_arg, self_packages) ==
  IF ~packages_arg.given /\ self_packages = <<>>
    THEN Samples
    ELSE {CHOOSE sample \in Samples : TRUE}

\* without a client the collaborator is not called
OutcomesFor(client) ==
  IF client THEN CollaboratorOutcomes ELSE {[kind |-> "not called", text |-> <<>>]}

MonthsFor(client, outcome) ==
  IF client /\ outcome.kind = "text" THEN SampleMonths ELSE {1}

SitesFor(client, outcome) ==
  IF client /\ outcome.kind = "text"
    THEN [1..Len(FirstBlocks(PackageBlocks(outcome.text))) -> {"expedia", "makemytrip"}]
    ELSE {<<>>}

\* ------------------------------------------------------------------- state
VARIABLES
  packages,          \* PackageRecommender.packages, the local catalog
  openai_client,     \* TRUE when a client is configured
  user_preferences,  \* the preference set handed to the core
  top_packages,      \* TravelAgent.top_packages
  pc,                \* where TravelAgent.run stands
  call               \* the last call made and what it returned

vars == <<packages, openai_client, user_preferences, top_packages, pc, call>>

Init ==
  /\ packages \in Stores
  /\ openai_client \in BOOLEAN
  /\ user_preferences \in PreferencePool
  /\ top_packages = <<>>
  /\ pc = "ready"
  /\ call = [op |-> "none"]

\* a call of calculate_compatibility_score
ScoreCall ==
  /\ call.op = "none"
  /\ \E package \in Scorable :
       call' = [op |-> "calculate_compatibility_score",
                package |-> package,
                result |-> calculate_compatibility_score(user_preferences,
                                                         package)]
  /\ UNCHANGED <<packages, openai_client, user_preferences, top_packages, pc>>

\* a call of calculate_enhanced_compatibility_score
EnhancedScoreCall ==
  /\ call.op = "none"
  /\ \E package \in Scorable, current_month \in SampleMonths :
       call' = [op |-> "calculate_enhanced_compatibility_score",
                package |-> package,
                current_month |-> current_month,
                result |-> calculate_enhanced_compatibility_score(
                             user_preferences, package, current_month)]
  /\ UNCHANGED <<packages, openai_client, user_preferences, top_packages, pc>>

FindTopReturns(r, packages_arg, top_n) ==
  /\ call' = [op |-> "find_top_packages",
              given |-> packages_arg.given,
              top_n |-> top_n,
              store |-> packages,
              scored |-> r.scored,
              input |-> r.input,
              regenerated |-> r.regenerated,
              raised |-> r.raised,
              ret |-> r.ret]
  /\ packages' = r.self_packages

\* a call of find_top_packages, with a list or without one
FindTopCall ==
  /\ call.op = "none"
  /\ \E packages_arg \in {NoList} \cup {GivenList(c) : c \in Catalogs},
        top_n \in TopNs :
       \E sample \in SamplesFor(packages_arg, packages) :
         FindTopReturns(find_top_packages(user_preferences, packages_arg,
                                          top_n, packages, sample),
                        packages_arg, top_n)
  /\ UNCHANGED <<openai_client, user_preferences, top_packages, pc>>

FindTopAgainReturns(r) ==
  /\ call' = [op |-> "find_top_packages again",
              given |-> call.given,
              top_n |-> call.top_n,
              first_raised |-> call.raised,
              first |-> call.ret,
              regenerated |-> r.regenerated,
              raised |-> r.raised,
              ret |-> r.ret]
  /\ packages' = r.self_packages

\* a second call of find_top_packages with the arguments of the first: the
\* list the first call was given, or none, and the same top_n
FindTopAgain ==
  /\ call.op = "find_top_packages"
  /\ \E sample \in SamplesFor(IF call.given THEN GivenList(call.input)
                                ELSE NoList, packages) :
       FindTopAgainReturns(
         find_top_packages(user_preferences,
                           IF call.given THEN GivenList(call.input)
                           ELSE NoList,
                           call.top_n, packages, sample))
  /\ UNCHANGED <<openai_client, user_preferences, top_packages, pc>>

FindOnlineReturns(r, top_n, outcome, current_month) ==
  call' = [op |-> "find_online_packages",
           top_n |-> top_n,
           outcome |-> outcome.kind,
           current_month |-> current_month,
           found |-> r.found,
           input |-> r.input,
           raised |-> r.raised,
           ret |-> r.ret]

\* a call of find_online_packages
FindOnlineCall ==
  /\ call.op = "none"
  /\ \E top_n \in TopNs, outcome \in OutcomesFor(openai_client) :
       \E current_month \in MonthsFor(openai_client, outcome),
          sites \in SitesFor(openai_client, outcome) :
         FindOnlineReturns(find_online_packages(user_preferences, top_n,
                                                openai_client, outcome,
                                                current_month, sites),
                           top_n, outcome, current_month)
  /\ UNCHANGED <<packages, openai_client, user_preferences, top_packages, pc>>

\* the blocks of a reply parse_openai_response builds packages from
BlocksOf(outcome) ==
  IF outcome.kind = "text" THEN FirstBlocks(PackageBlocks(outcome.text))
  ELSE <<>>

\* a call of validate_package_data as parse_openai_response makes it (line
\* 242): on the package built from the i-th block of a reply
ValidateCall ==
  /\ call.op = "none"
  /\ \E outcome \in CollaboratorOutcomes, current_month \in SampleMonths :
       \E i \in 1..Len(BlocksOf(outcome)) :
         call' = [op |-> "validate_package_data",
                  before |-> BuildPackage(BlocksOf(outcome)[i], i,
                                          user_preferences),
                  current_month |-> current_month,
                  result |-> validate_package_data(
                               BuildPackage(BlocksOf(outcome)[i], i,
                                            user_preferences),
                               current_month)]
  /\ UNCHANGED <<packages, openai_client, user_preferences, top_packages, pc>>

\* a call of parse_openai_response as get_packages_from_openai makes it (line
\* 207): on the text of a reply of the client
ParseCall ==
  /\ call.op = "none"
  /\ openai_client
  /\ \E outcome \in {o \in CollaboratorOutcomes : o.kind = "text"}, current_month \in SampleMonths :
       \E sites \in SitesFor(openai_client, outcome) :
         call' = [op |-> "parse_openai_response",
                  response_text |-> outcome.text,
                  current_month |-> current_month,
                  ret |-> parse_openai_response(outcome.text, user_preferences,
                                               current_month, sites)]
  /\ UNCHANGED <<packages, openai_client, user_preferences, top_packages, pc>>

\* line 598 of package_recommender.py: min_compatibility_threshold = 15
min_compatibility_threshold == 15

\* NeedsOnline with the best local percentage compared to the threshold
NeedsOnlineBelowThreshold(local_packages) ==
  \/ local_packages = <<>>
  \/ FracLess(local_packages[1].compatibility_score,
              <<min_compatibility_threshold, 1>>)

\* line 84: if not self.top_packages
NeedsOnline(local_packages) == local_packages = <<>>

\* lines 84-86: the online recommendations replace the local ones
RecommendOnline(local, online) ==
  /\ top_packages' = IF online.raised THEN local.ret ELSE online.ret
  /\ pc' = IF online.raised THEN "failed" ELSE "recommended"
  /\ call' = [op |-> "generate_recommendations",
              store |-> packages,
              local_raised |-> FALSE,
              local |-> local.ret,
              online_invoked |-> TRUE,
              online |-> online.ret]

\* line 82 has returned or raised
RecommendLocal(local) ==
  IF ~local.raised /\ NeedsOnline(local.ret)
    THEN \E outcome \in OutcomesFor(openai_client) :
           \E current_month \in MonthsFor(openai_client, outcome),
              sites \in SitesFor(openai_client, outcome) :
             RecommendOnline(local,
                             find_online_packages(user_preferences,
                                                  DefaultTopN, openai_client,
                                                  outcome, current_month,
                                                  sites))
    ELSE /\ top_packages' = IF local.raised THEN top_packages ELSE local.ret
         /\ pc' = IF local.raised THEN "failed" ELSE "recommended"
         /\ call' = [op |-> "generate_recommendations",
                     store |-> packages,
                     local_raised |-> local.raised,
                     local |-> local.ret,
                     online_invoked |-> FALSE,
                     online |-> <<>>]

\* TravelAgent.generate_recommendations as TravelAgent.run calls it; an
\* exception that leaves it is caught at line 100 and ends the run.
generate_recommendations ==
  /\ pc = "ready"
  /\ call.op = "none"
  /\ \E sample \in SamplesFor(NoList, packages) :
       LET local == find_top_packages(user_preferences, NoList, DefaultTopN,
                                      packages, sample)
       IN /\ packages' = local.self_packages
          /\ RecommendLocal(local)
  /\ UNCHANGED <<openai_client, user_preferences>>

Next ==
  \/ ScoreCall
  \/ EnhancedScoreCall
  \/ FindTopCall
  \/ FindTopAgain
  \/ FindOnlineCall
  \/ ParseCall
  \/ ValidateCall
  \/ generate_recommendations

Spec == Init /\ [][Next]_vars

\* ------------------------------------------------- the preference dialogue
\* PreferenceExtractor.get_user_preferences, one step per answer the user is
\* asked for.  The frame of the call (its position and its locals) is held
\* in the record call.
required_preferences == <<"destination", "budget", "duration", "travel_style", "group_size", "accommodation_type">>

max_attempts_per_preference == 3

PyNone == [tag |-> "none", chars |-> <<>>, num |-> 0]

\* d[key] = value for a dict held as its items in insertion order
SetItem(d, key, value) ==
  IF \E i \in 1..Len(d) : d[i].key = key
    THEN [i \in 1..Len(d) |->
            IF d[i].key = key THEN [key |-> key, value |-> value] ELSE d[i]]
    ELSE Append(d, [key |-> key, value |-> value])

\* What extract_preference_from_response returns.  Without a client the
\* patterns of basic_preference_extraction yield a stripped non-empty text or
\* None with needs_clarification; with a client the result is the JSON of the
\* reply, which may carry an empty or null value, a value together with
\* needs_clarification, or lack the two fields read at lines 159 and 191.
ExtractionResults(client) ==
  {[well_formed |-> TRUE, needs_clarification |-> FALSE, extracted_value |-> PyStr(<<"P", "a", "r", "i", "s">>)],
   [well_formed |-> TRUE, needs_clarification |-> TRUE, extracted_value |-> PyNone]}
  \cup IF client
         THEN {[well_formed |-> TRUE, needs_clarification |-> FALSE, extracted_value |-> PyStr(<<>>)],
               [well_formed |-> TRUE, needs_clarification |-> TRUE, extracted_value |-> PyStr(<<"P", "a", "r", "i", "s">>)],
               [well_formed |-> FALSE, needs_clarification |-> TRUE, extracted_value |-> PyNone]}
         ELSE {}

\* not extraction_result["needs_clarification"] and
\* extraction_result["extracted_value"]: None and '' count as false
Accepted(result) ==
  /\ ~result.needs_clarification
  /\ result.extracted_value.tag = "str"
  /\ result.extracted_value.chars # <<>>

\* what the user types at a prompt
UserResponses == {<<>>, <<" ", " ">>, <<"R", "o", "m", "e", " ">>, <<"y", "e", "s">>, <<" ", "N", "o", " ">>, <<"1">>, <<"9">>}

\* input(...).strip().lower().startswith('n')
StartsWithN(answer) ==
  LET t == Lower(Strip(answer)) IN t # <<>> /\ Head(t) = "n"

\* The clarification loop goes on with the first key from index from on
\* that has no preference yet (lines 166-170), or ends.
NextMissing(preferences, from) ==
  LET missing == {i \in from..6 : \A j \in 1..Len(preferences) : preferences[j].key # required_preferences[i]}
  IN [op |-> "get_user_preferences",
      at |-> IF missing = {} THEN "confirming" ELSE "asking",
      preferences |-> preferences,
      key |-> IF missing = {} THEN 0 ELSE CHOOSE i \in missing : \A j \in missing : i <= j,
      attempts |-> 0,
      rounds |-> 0]

\* The start of get_user_preferences up to the first follow-up question
\* (lines 146-170): the preferences the initial response resolves, or the
\* KeyError of line 159.
get_user_preferences ==
  /\ call.op = "none"
  /\ \E results \in [1..6 -> ExtractionResults(openai_client)] :
       LET found == SelectSeq([i \in 1..6 |-> [key |-> required_preferences[i], value |-> results[i].extracted_value, ok |-> Accepted(results[i])]],
                              LAMBDA e : e.ok)
       IN call' = IF \E i \in 1..6 : ~results[i].well_formed
                    THEN [op |-> "get_user_preferences", at |-> "raised"]
                    ELSE NextMissing([i \in 1..Len(found) |-> [key |-> found[i].key, value |-> found[i].value]], 1)
  /\ UNCHANGED <<packages, openai_client, user_preferences, top_packages, pc>>

\* lines 200-202 left out
NotDefaulted(preferences, key) == preferences

\* preferences[key] = "Not specified" (lines 200-202)
Defaulted(preferences, key) == SetItem(preferences, key, PyStr(NotSpecified))

\* One pass of the clarification loop for the current key (lines 171-202).
\* An attempt that resolves nothing is followed by another one or, after
\* the third, by the default; the KeyError of line 191 is not caught.
AskForClarification ==
  /\ call.op = "get_user_preferences"
  /\ call.at = "asking"
  /\ \E user_response \in UserResponses, result \in ExtractionResults(openai_client) :
       LET key == required_preferences[call.key]
           Unresolved == IF call.attempts + 1 < max_attempts_per_preference
                           THEN [call EXCEPT !.attempts = call.attempts + 1]
                           ELSE NextMissing(Defaulted(call.preferences, key), call.key + 1)
       IN call' = IF Strip(user_response) = <<>> THEN Unresolved
                  ELSE IF ~result.well_formed
                    THEN [op |-> "get_user_preferences", at |-> "raised"]
                  ELSE IF Accepted(result)
                    THEN NextMissing(SetItem(call.preferences, key, result.extracted_value), call.key + 1)
                  ELSE Unresolved
  /\ UNCHANGED <<packages, openai_client, user_preferences, top_packages, pc>>

\* get_user_preferences returns
DialogueReturned(preferences) ==
  [op |-> "get_user_preferences", at |-> "returned", ret |-> preferences,
   rounds |-> call.rounds]

\* the confirmation of lines 210-214
ConfirmPreferences ==
  /\ call.op = "get_user_preferences"
  /\ call.at = "confirming"
  /\ \E confirm \in UserResponses :
       call' = IF StartsWithN(confirm)
                 THEN [call EXCEPT !.at = "correcting", !.rounds = 1]
                 ELSE DialogueReturned(call.preferences)
  /\ UNCHANGED <<packages, openai_client, user_preferences, top_packages, pc>>

\* The corrections the client's reply holds (line 248): a JSON object, or
\* a reply json.loads or .items() fails on.
CorrectionReplies ==
  {[parsed |-> TRUE, items |-> <<[key |-> "budget", value |-> PyStr(<<"l", "u", "x", "u", "r", "y">>)]>>],
   [parsed |-> TRUE, items |-> <<[key |-> "duration", value |-> PyNone], [key |-> "hotel", value |-> PyStr(<<"a", "n", "y">>)]>>],
   [parsed |-> FALSE, items |-> <<>>]}

\* the loop of lines 251-255
RECURSIVE ApplyCorrections(_, _)
ApplyCorrections(preferences, items) ==
  IF items = <<>> THEN preferences
  ELSE ApplyCorrections(IF \E i \in 1..Len(preferences) : preferences[i].key = Head(items).key
                          THEN SetItem(preferences, Head(items).key, Head(items).value)
                          ELSE preferences,
                        Tail(items))

\* manual_preference_correction for the choice and the new value typed
manual_preference_correction(preferences, choice, new_value) ==
  LET choice_idx == ParseInt(Strip(choice))
      preference_keys == SelectSeq(preferences, LAMBDA e : e.value # PyStr(NotSpecified))
  IN IF Strip(choice) = <<>> \/ ~choice_idx.ok THEN preferences
     ELSE IF 0 <= choice_idx.val - 1 /\ choice_idx.val - 1 < Len(preference_keys)
       THEN IF Strip(new_value) # <<>>
              THEN SetItem(preferences, preference_keys[choice_idx.val].key, PyStr(Strip(new_value)))
              ELSE preferences
     ELSE preferences

\* handle_preference_corrections up to the final confirmation (lines 218-269)
handle_preference_corrections ==
  /\ call.op = "get_user_preferences"
  /\ call.at = "correcting"
  /\ \/ /\ {correction_input \in UserResponses : Strip(correction_input) = <<>>} # {}
        /\ call' = DialogueReturned(call.preferences)
     \/ /\ {correction_input \in UserResponses : Strip(correction_input) # <<>>} # {}
        /\ \/ /\ openai_client
              /\ \E reply \in CorrectionReplies :
                   /\ reply.parsed
                   /\ call' = [call EXCEPT !.at = "reconfirming", !.preferences = ApplyCorrections(call.preferences, reply.items)]
           \/ /\ ~openai_client \/ {reply \in CorrectionReplies : ~reply.parsed} # {}
              /\ \E choice \in UserResponses, new_value \in UserResponses :
                   call' = [call EXCEPT !.at = "reconfirming", !.preferences = manual_preference_correction(call.preferences, choice, new_value)]
  /\ UNCHANGED <<packages, openai_client, user_preferences, top_packages, pc>>

\* the final confirmation (lines 271-276): another round or the return
FinalConfirm ==
  /\ call.op = "get_user_preferences"
  /\ call.at = "reconfirming"
  /\ \E final_confirm \in UserResponses :
       \/ /\ StartsWithN(final_confirm)
          /\ call.rounds < MaxRounds
          /\ call' = [call EXCEPT !.at = "correcting", !.rounds = call.rounds + 1]
       \/ /\ ~StartsWithN(final_confirm)
          /\ call' = DialogueReturned(call.preferences)
  /\ UNCHANGED <<packages, openai_client, user_preferences, top_packages, pc>>

\* TravelAgent.run before the preferences are known
InitDialogue ==
  /\ packages = <<>>
  /\ openai_client \in BOOLEAN
  /\ user_preferences = Prefs(NotSpecified, NotSpecified, NotSpecified, NotSpecified, NotSpecified, NotSpecified)
  /\ top_packages = <<>>
  /\ pc = "ready"
  /\ call = [op |-> "none"]

NextDialogue ==
  \/ get_user_preferences
  \/ AskForClarification
  \/ ConfirmPreferences
  \/ handle_preference_corrections
  \/ FinalConfirm

SpecDialogue == InitDialogue /\ [][NextDialogue]_vars

\* ------------------------------------------------- the catalog file
\* save_packages_to_csv writes travel_packages.csv with csv.DictWriter and
\* load_packages_from_csv reads it back with csv.DictReader.
fieldnames == <<[name |-> "package_id", chars |-> <<"p", "a", "c", "k", "a", "g", "e", "_", "i", "d">>], [name |-> "package_name", chars |-> <<"p", "a", "c", "k", "a", "g", "e", "_", "n", "a", "m", "e">>], [name |-> "destination", chars |-> <<"d", "e", "s", "t", "i", "n", "a", "t", "i", "o", "n">>], [name |-> "budget", chars |-> <<"b", "u", "d", "g", "e", "t">>], [name |-> "duration", chars |-> <<"d", "u", "r", "a", "t", "i", "o", "n">>], [name |-> "travel_style", chars |-> <<"t", "r", "a", "v", "e", "l", "_", "s", "t", "y", "l", "e">>], [name |-> "group_size", chars |-> <<"g", "r", "o", "u", "p", "_", "s", "i", "z", "e">>], [name |-> "accommodation_type", chars |-> <<"a", "c", "c", "o", "m", "m", "o", "d", "a", "t", "i", "o", "n", "_", "t", "y", "p", "e">>], [name |-> "activities", chars |-> <<"a", "c", "t", "i", "v", "i", "t", "i", "e", "s">>], [name |-> "price_range", chars |-> <<"p", "r", "i", "c", "e", "_", "r", "a", "n", "g", "e">>], [name |-> "rating", chars |-> <<"r", "a", "t", "i", "n", "g">>], [name |-> "reviews_count", chars |-> <<"r", "e", "v", "i", "e", "w", "s", "_", "c", "o", "u", "n", "t">>], [name |-> "includes", chars |-> <<"i", "n", "c", "l", "u", "d", "e", "s">>], [name |-> "best_time", chars |-> <<"b", "e", "s", "t", "_", "t", "i", "m", "e">>]>>

\* The text save_packages_to_csv writes (lines 463-485).  The file is opened
\* with newline='', so rows end in "\r\n" as the writer emits them.  A value
\* is written as str(value), an absent one as '', and a field that holds a
\* comma, a quote or a line end is put in quotes with its quotes doubled.  A
\* record with a key that is no field name raises in the writer: the rows
\* before it are written and False is returned.
save_packages_to_csv(packages_arg) ==
  LET Str(p, name) ==
        IF name \notin DOMAIN p THEN <<>>
        ELSE IF name \notin {"rating", "reviews_count"} THEN p[name]
        ELSE IF p[name].tag = "str" THEN p[name].chars
        ELSE IF name = "rating"
          THEN IntToStr(p[name].num \div 10) \o <<".">> \o IntToStr(p[name].num % 10)
        ELSE IntToStr(p[name].num)
      RECURSIVE Doubled(_)
      Doubled(f) ==
        IF f = <<>> THEN <<>>
        ELSE (IF Head(f) = "\"" THEN <<"\"", "\"">> ELSE <<Head(f)>>) \o Doubled(Tail(f))
      Quoted(f) ==
        IF \E i \in 1..Len(f) : f[i] \in {",", "\"", "\r", "\n"}
          THEN <<"\"">> \o Doubled(f) \o <<"\"">>
          ELSE f
      RECURSIVE Line(_, _)
      Line(fields, i) ==
        IF i > Len(fields) THEN <<"\r", "\n">>
        ELSE (IF i > 1 THEN <<",">> ELSE <<>>) \o fields[i] \o Line(fields, i + 1)
      Written(p) == Line([i \in 1..Len(fieldnames) |-> Quoted(Str(p, fieldnames[i].name))], 1)
      Extra(p) == \E key \in DOMAIN p : \A i \in 1..Len(fieldnames) : fieldnames[i].name # key
      RECURSIVE Rows(_)
      Rows(i) ==
        IF i > Len(packages_arg) \/ Extra(packages_arg[i]) THEN <<>>
        ELSE Written(packages_arg[i]) \o Rows(i + 1)
  IN [ok |-> \A i \in 1..Len(packages_arg) : ~Extra(packages_arg[i]),
      file |-> Line([i \in 1..Len(fieldnames) |-> Quoted(fieldnames[i].chars)], 1) \o Rows(1)]

\* The records load_packages_from_csv returns for the text of the file
\* (lines 487-507).  The file is opened without newline='', so the reader is
\* handed the text with every "\r\n" and every "\r" turned into "\n".  The
\* reader cuts it into rows at the line ends outside quotes and each row into
\* fields at the commas outside quotes (for the well-formed text the writer
\* leaves, a place is outside quotes when an even number of quotes precede
\* it), takes a quoted field without its quotes and with doubled quotes
\* single, skips empty rows, and DictReader binds the fields of each row to
\* the names of the first row.  Every value is a str.
load_packages_from_csv(file) ==
  LET Pairs(t) == [i \in 1..Len(t) |-> <<t[i], IF i > 1 THEN t[i - 1] ELSE "">>]
      Kept(t) == SelectSeq(Pairs(t), LAMBDA p : ~(p[1] = "\n" /\ p[2] = "\r"))
      Translated(kept) == [i \in 1..Len(kept) |-> IF kept[i][1] = "\r" THEN "\n" ELSE kept[i][1]]
      Quotes(t) == {i \in 1..Len(t) : t[i] = "\""}
      Outside(quotes, i) == Cardinality({q \in quotes : q < i}) % 2 = 0
      Cut(t, sep, quotes) == SplitOnFrom(t, <<sep>>, 1, {i \in 1..Len(t) : t[i] = sep /\ Outside(quotes, i)})
      Single(inner, quotes) == SelectSeq([i \in 1..Len(inner) |-> <<inner[i], i \in quotes /\ Outside(quotes, i)>>], LAMBDA p : ~p[2])
      Inner(f) == SubSeq(f, 2, Len(f) - 1)
      Chars(s) == [i \in 1..Len(s) |-> s[i][1]]
      Field(f) == IF f # <<>> /\ Head(f) = "\"" THEN Chars(Single(Inner(f), Quotes(Inner(f)))) ELSE f
      Fields(row) == LET cut == Cut(row, ",", Quotes(row)) IN [i \in 1..Len(cut) |-> Field(cut[i])]
      Rows(t) == LET cut == SelectSeq(Cut(t, "\n", Quotes(t)), LAMBDA row : row # <<>>) IN [i \in 1..Len(cut) |-> Fields(cut[i])]
      Column(header, chars) == CHOOSE j \in 1..Len(header) : header[j] = chars
      Value(name, row, j) == IF j > Len(row) THEN PyNone ELSE IF name \in {"rating", "reviews_count"} THEN PyStr(row[j]) ELSE row[j]
      Record(header, row) == [name \in {fieldnames[i].name : i \in {k \in 1..Len(fieldnames) : \E j \in 1..Len(header) : header[j] = fieldnames[k].chars}} |->
                                Value(name, row, Column(header, (CHOOSE f \in {fieldnames[i] : i \in 1..Len(fieldnames)} : f.name = name).chars))]
      Records(rows) == IF rows = <<>> THEN <<>> ELSE [i \in 1..(Len(rows) - 1) |-> Record(rows[1], rows[i + 1])]
  IN Records(Rows(Translated(Kept(file))))

\* the records handed to save_packages_to_csv: rows of the catalogs, a
\* generated package, and rows whose free text holds quotes and line ends
InitStore ==
  /\ packages \in LET texts == {<<"W", "a", "l", "k", ",", " ", "\"", "f", "r", "e", "e", "\"", " ", "s", "w", "i", "m">>, <<"W", "a", "l", "k", "\n", "S", "w", "i", "m">>, <<"W", "a", "l", "k", "\r", "S", "w", "i", "m">>, <<"W", "a", "l", "k", "\r", "\n", "S", "w", "i", "m">>}
                         rows == PackagePool \cup {s[1] : s \in Samples}
                     IN SeqsUpTo(rows \cup {[p EXCEPT !.activities = t] : p \in {q \in PackagePool : q.package_id = <<"P", "K", "G", "0", "0", "4">>}, t \in texts}, MaxCatalog)
  /\ openai_client = FALSE
  /\ user_preferences = Prefs(NotSpecified, NotSpecified, NotSpecified, NotSpecified, NotSpecified, NotSpecified)
  /\ top_packages = <<>>
  /\ pc = "ready"
  /\ call = [op |-> "none"]

\* save_packages_to_csv(self.packages) as in line 27
SaveCall ==
  /\ call.op = "none"
  /\ call' = [op |-> "save_packages_to_csv",
              saved |-> packages,
              ret |-> save_packages_to_csv(packages).ok,
              file |-> save_packages_to_csv(packages).file]
  /\ UNCHANGED <<packages, openai_client, user_preferences, top_packages, pc>>

\* self.packages = self.load_packages_from_csv() or [] as in line 33
LoadCall ==
  /\ call.op = "save_packages_to_csv"
  /\ call' = [op |-> "load_packages_from_csv",
              saved |-> call.saved,
              save_ok |-> call.ret,
              ret |-> load_packages_from_csv(call.file)]
  /\ packages' = load_packages_from_csv(call.file)
  /\ UNCHANGED <<openai_client, user_preferences, top_packages, pc>>

NextStore == SaveCall \/ LoadCall

SpecStore == InitStore /\ [][NextStore]_vars

\* ------------------------------------------------- the budget descriptors
\* calculate_compatibility_score over the budget descriptors a preference
\* set may hold: the keywords of lines 528-536 in several cases, a descriptor
\* with none of them, and the sentinel
InitBudget ==
  /\ packages = <<>>
  /\ openai_client = FALSE
  /\ user_preferences \in {Prefs(<<"P", "a", "r", "i", "s">>, budget, <<"7">>, <<"a", "r", "t">>, <<"c", "o", "u", "p", "l", "e">>, <<"h", "o", "t", "e", "l">>) :
                             budget \in {<<"b", "u", "d", "g", "e", "t">>, <<"C", "h", "e", "a", "p">>, <<"l", "o", "w", " ", "c", "o", "s", "t">>, <<"a", "f", "f", "o", "r", "d", "a", "b", "l", "e">>, <<"L", "U", "X", "U", "R", "Y">>, <<"h", "i", "g", "h">>, <<"p", "r", "e", "m", "i", "u", "m">>, <<"e", "x", "p", "e", "n", "s", "i", "v", "e">>, <<"m", "o", "d", "e", "r", "a", "t", "e">>, <<"m", "i", "d", "-", "r", "a", "n", "g", "e">>, <<"v", "e", "r", "y", " ", "a", "f", "f", "o", "r", "d", "a", "b", "l", "e", " ", "l", "u", "x", "u", "r", "y">>, NotSpecified}}
  /\ top_packages = <<>>
  /\ pc = "ready"
  /\ call = [op |-> "none"]

SpecBudget == InitBudget /\ [][ScoreCall]_vars

\* ------------------------------------------------- the conversation
\* ConversationHandler.check_exit_keywords (lines 15-18)
check_exit_keywords(user_input) ==
  AnyWordIn(<<<<"e", "x", "i", "t">>, <<"c", "l", "o", "s", "e">>, <<"e", "n", "d">>, <<"q", "u", "i", "t">>, <<"g", "o", "o", "d", "b", "y", "e">>, <<"b", "y", "e">>>>, Lower(user_input))

\* ConversationHandler.fallback_package_recommendation (lines 77-95): the
\* reply about the first package, which raises KeyError when that package
\* lacks a key the reply reads, or the general reply.
fallback_package_recommendation(user_question, top_packages_arg) ==
  IF /\ AnyWordIn(<<<<"r", "e", "c", "o", "m", "m", "e", "n", "d">>, <<"s", "u", "g", "g", "e", "s", "t">>, <<"b", "e", "s", "t">>, <<"w", "h", "i", "c", "h">>, <<"c", "h", "o", "o", "s", "e">>>>, Lower(user_question))
     /\ top_packages_arg # <<>>
    THEN IF {"package_name", "destination", "compatibility_score", "rating", "reviews_count", "price_range", "travel_style", "accommodation_type", "activities", "includes"} \subseteq DOMAIN top_packages_arg[1]
           THEN [raised |-> FALSE, kind |-> "recommendation", text |-> top_packages_arg[1].package_name]
           ELSE [raised |-> TRUE, kind |-> "KeyError", text |-> <<>>]
    ELSE [raised |-> FALSE, kind |-> "general", text |-> <<>>]

\* ConversationHandler.get_ai_package_recommendation (lines 20-75) for the
\* outcome of the chat completion call: without a client, and after any
\* exception of the try block (a key a package lacks, a call that raises, a
\* content of None), the fallback answers.
get_ai_package_recommendation(user_question, top_packages_arg, client, outcome) ==
  IF /\ client
     /\ \A i \in 1..Len(top_packages_arg) : {"package_name", "destination", "price_range", "duration", "travel_style", "group_size", "accommodation_type", "rating", "reviews_count", "activities", "includes", "best_time", "compatibility_score"} \subseteq DOMAIN top_packages_arg[i]
     /\ outcome.kind = "text"
    THEN [raised |-> FALSE, kind |-> "ai", text |-> Strip(outcome.text)]
    ELSE fallback_package_recommendation(user_question, top_packages_arg)

\* One pass of the loop of ConversationHandler.start_conversation (lines
\* 107-131) as TravelAgent.run enters it with self.top_packages (line 96):
\* the input typed, or a keyboard interrupt, and what the pass comes to.
start_conversation ==
  /\ pc \in {"recommended", "conversing"}
  /\ \E typed \in {[interrupt |-> TRUE, text |-> <<>>]} \cup {[interrupt |-> FALSE, text |-> t] : t \in {<<>>, <<" ", " ">>, <<"e", "x", "i", "t">>, <<"B", "y", "e", " ", "n", "o", "w">>, <<"w", "h", "i", "c", "h", " ", "o", "n", "e", " ", "d", "o", " ", "y", "o", "u", " ", "r", "e", "c", "o", "m", "m", "e", "n", "d">>, <<"p", "l", "a", "n", " ", "m", "y", " ", "w", "e", "e", "k", "e", "n", "d">>, <<"w", "h", "i", "c", "h", " ", "i", "s", " ", "b", "e", "s", "t">>, <<"i", "s", " ", "i", "t", " ", "w", "a", "r", "m">>}} :
       \E outcome \in {[kind |-> "raises", text |-> <<>>], [kind |-> "none", text |-> <<>>], [kind |-> "text", text |-> <<" ", "T", "a", "k", "e", " ", "t", "h", "e", " ", "f", "i", "r", "s", "t", ".", " ">>]} :
         LET user_input == Strip(typed.text)
             ai_response == get_ai_package_recommendation(user_input, top_packages, openai_client, outcome)
             result == IF typed.interrupt THEN "ended"
                       ELSE IF user_input = <<>> THEN "asked again"
                       ELSE IF check_exit_keywords(user_input) THEN "ended"
                       ELSE IF ai_response.raised THEN "error"
                       ELSE "answered"
         IN /\ call' = [op |-> "start_conversation",
                        interrupt |-> typed.interrupt,
                        user_input |-> user_input,
                        result |-> result,
                        reply |-> IF result = "answered" THEN ai_response.kind ELSE "none"]
            /\ pc' = IF result = "ended" THEN "done" ELSE "conversing"
  /\ UNCHANGED <<packages, openai_client, user_preferences, top_packages>>

\* TravelAgent.run from the recommendations on (lines 94-96)
NextRun ==
  \/ generate_recommendations
  \/ start_conversation

SpecRun == Init /\ [][NextRun]_vars

\* ------------------------------------------------------------------ claims
\* what the claims say of a call is read off the record of the call
IsCall(op) == call.op = op

Returned(op) == call.op = op /\ ~call.raised

\* the baseline percentage of a record under the preferences of the state
BaselineOf(package) ==
  calculate_compatibility_score(user_preferences, package).percentage

\* the percentage is at most n
AtMost(percentage, n) == percentage[1] <= n * percentage[2]

\* C1: calculate_compatibility_score returns the max score 15 whatever the
\* inputs, a raw score from 0 to 15 and the percentage raw / 15 * 100, which
\* lies between 0 and 100.
C1_BaselineScore ==
  IsCall("calculate_compatibility_score") =>
    /\ call.result.max = 15
    /\ call.result.raw \in 0..15
    /\ call.result.percentage = <<call.result.raw * 100, 15>>
    /\ ~FracLess(call.result.percentage, <<0, 1>>)
    /\ AtMost(call.result.percentage, 100)

\* a package that earns the full 15 points has been scored
C1_Witness ==
  /\ IsCall("calculate_compatibility_score")
  /\ call.result.raw = 15
  /\ call.result.percentage = <<1500, 15>>

\* C2: for a package with a numeric rating and review count,
\* calculate_enhanced_compatibility_score returns the max score 22.5, a raw
\* score from 0 to 22.5 and the percentage raw / 22.5 * 100, which lies
\* between 0 and 100 (scores in tenths).
C2_EnhancedScore ==
  (IsCall("calculate_enhanced_compatibility_score") /\ ~call.result.raised) =>
    /\ call.result.max = 225
    /\ call.result.max = (15 + 2 + 1 + 2 + 1) * Tenth + 15
    /\ call.result.raw \in 0..225
    /\ call.result.percentage = <<call.result.raw * 100, 225>>
    /\ ~FracLess(call.result.percentage, <<0, 1>>)
    /\ AtMost(call.result.percentage, 100)

\* a package has been scored to which the five further factors add points
C2_Witness ==
  /\ IsCall("calculate_enhanced_compatibility_score")
  /\ ~call.result.raised
  /\ call.result.raw >
       calculate_compatibility_score(user_preferences, call.package).raw * Tenth
  /\ call.result.raw > 150

\* C3: no package whose baseline percentage is at most 5 is in the list
\* find_top_packages returns.
C3_FloorKept ==
  Returned("find_top_packages") =>
    \A k \in 1..Len(call.ret) : ~AtMost(BaselineOf(call.ret[k]), 5)

\* a list with a package below the floor has been ranked and something is
\* returned
C3_Witness ==
  /\ Returned("find_top_packages")
  /\ call.ret # <<>>
  /\ \E i \in 1..Len(call.scored) : AtMost(BaselineOf(call.scored[i]), 5)

\* the survivors of a scored list, by position
Survivors(list) == {i \in 1..Len(list) : ~AtMost(BaselineOf(list[i]), 5)}

\* the copy of a package with the three baseline score fields
ExpectedScored(package) ==
  [compatibility_score |-> BaselineOf(package),
   raw_score |-> calculate_compatibility_score(user_preferences, package).raw,
   max_score |-> calculate_compatibility_score(user_preferences, package).max]
  @@ package

RatingOf(package) == PyFloat(package.rating).val

\* a comes before b in the order (percentage, rating as a number) descending
Outranks(a, b) ==
  \/ FracLess(BaselineOf(b), BaselineOf(a))
  \/ FracEq(BaselineOf(a), BaselineOf(b)) /\ RatingOf(a) > RatingOf(b)

\* ret holds the survivors chosen by f, none left out outranks one chosen
ChosenBy(f, ret, list) ==
  /\ \A k, l \in 1..Len(ret) : k # l => f[k] # f[l]
  /\ \A k \in 1..Len(ret) : ret[k] = ExpectedScored(list[f[k]])
  /\ \A j \in Survivors(list) \ {f[k] : k \in 1..Len(ret)} :
       \A k \in 1..Len(ret) : ~Outranks(list[j], ret[k])

\* C4: find_top_packages returns min(top_n, survivors) packages: survivors in
\* descending order of percentage and, among equal percentages, of the rating
\* as a number, and no survivor left out outranks a returned one.
C4_TopOrdered ==
  Returned("find_top_packages") =>
    /\ Len(call.ret) = Min(call.top_n, Cardinality(Survivors(call.scored)))
    /\ \A k, l \in 1..Len(call.ret) :
         k < l => ~Outranks(call.ret[l], call.ret[k])
    /\ \E f \in [1..Len(call.ret) -> Survivors(call.scored)] :
         ChosenBy(f, call.ret, call.scored)

\* of two survivors with equal percentages the later one has the higher
\* rating, and it alone is returned
C4_Witness ==
  /\ Returned("find_top_packages")
  /\ call.top_n = 1
  /\ Len(call.scored) = 2
  /\ Survivors(call.scored) = {1, 2}
  /\ FracEq(BaselineOf(call.scored[1]), BaselineOf(call.scored[2]))
  /\ RatingOf(call.scored[1]) < RatingOf(call.scored[2])
  /\ call.ret = <<ExpectedScored(call.scored[2])>>

\* a and b tie in the order of find_top_packages
Tie(a, b) ==
  FracEq(BaselineOf(a), BaselineOf(b)) /\ RatingOf(a) = RatingOf(b)

\* C5: two different survivors with equal percentage and equal rating are
\* returned in the order they have in the list that was scored.
C5_StableTies ==
  Returned("find_top_packages") =>
    \A k, l \in 1..Len(call.ret) :
      (k < l /\ Tie(call.ret[k], call.ret[l]) /\ call.ret[k] # call.ret[l]) =>
        \E i, j \in 1..Len(call.scored) :
          /\ i < j
          /\ call.ret[k] = ExpectedScored(call.scored[i])
          /\ call.ret[l] = ExpectedScored(call.scored[j])

\* two different packages that tie are both returned
C5_Witness ==
  /\ Returned("find_top_packages")
  /\ Len(call.ret) >= 2
  /\ Tie(call.ret[1], call.ret[2])
  /\ call.ret[1].package_id # call.ret[2].package_id

C7_OnlineDegrades ==
  (/\ IsCall("find_online_packages")
   /\ \/ ~openai_client
      \/ call.outcome \in {"raises", "none"}
      \/ call.found = <<>>) =>
    (~call.raised /\ call.ret = <<>>)

\* the collaborator raised and the empty list came back
C7_Witness ==
  /\ IsCall("find_online_packages")
  /\ openai_client
  /\ call.outcome = "raises"
  /\ ~call.raised
  /\ call.ret = <<>>

\* C8: find_top_packages without a list on an empty catalog generates a
\* non-empty sample catalog, stores it, scores it and returns packages of it
\* without raising.
C8_EmptyCatalogRecovered ==
  (IsCall("find_top_packages") /\ ~call.given /\ call.store = <<>>) =>
    /\ ~call.raised
    /\ call.regenerated
    /\ packages \in Samples
    /\ packages # <<>>
    /\ call.scored = packages
    /\ \A k \in 1..Len(call.ret) :
         \E i \in 1..Len(packages) : call.ret[k] = ExpectedScored(packages[i])

\* the catalog was empty and packages of the sample are returned
C8_Witness ==
  /\ IsCall("find_top_packages")
  /\ ~call.given
  /\ call.store = <<>>
  /\ call.ret # <<>>
  /\ packages \in Samples

\* C9: whatever the duration, rating or review count of a package record,
\* find_top_packages and find_online_packages return a result: no exception
\* leaves them.
C9_NoExceptionLeaves ==
  (IsCall("find_top_packages") \/ IsCall("find_online_packages")) =>
    ~call.raised

ScoreFields == {"compatibility_score", "raw_score", "max_score"}

EnhancedFields ==
  {"enhanced_compatibility_score", "enhanced_raw_score", "enhanced_max_score",
   "booking_links"}

\* what a step leaves of the records it was given
InputsKept ==
  /\ user_preferences' = user_preferences
  /\ call'.op = "find_top_packages" =>
       /\ call'.input = call'.scored
       /\ (call'.given \/ ~call'.regenerated) => packages' = packages
       /\ \A k \in 1..Len(call'.ret) :
            /\ ScoreFields \subseteq DOMAIN call'.ret[k]
            /\ \E i \in 1..Len(call'.input) :
                 /\ ScoreFields \cap DOMAIN call'.input[i] = {}
                 /\ call'.ret[k] = ExpectedScored(call'.input[i])
  /\ call'.op = "find_online_packages" =>
       /\ call'.input = call'.found
       /\ packages' = packages
       /\ \A k \in 1..Len(call'.ret) :
            /\ EnhancedFields \subseteq DOMAIN call'.ret[k]
            /\ \E i \in 1..Len(call'.input) :
                 /\ EnhancedFields \cap DOMAIN call'.input[i] = {}
                 /\ \A key \in DOMAIN call'.input[i] :
                      call'.ret[k][key] = call'.input[i][key]
  /\ call'.op \in {"calculate_compatibility_score",
                   "calculate_enhanced_compatibility_score"} =>
       packages' = packages

\* C10: no scorer and neither find_top_packages nor find_online_packages
\* changes the preference set or a package record it is given: the score
\* fields and the booking links are in the returned copies only.
C10_InputsUnchanged == [][InputsKept]_vars

\* packages have been ranked, the returned copies carry the score fields and
\* the list that was scored is as it was
C10_Witness ==
  /\ Returned("find_top_packages")
  /\ call.ret # <<>>
  /\ call.input = call.scored
  /\ \A i \in 1..Len(call.input) : ScoreFields \cap DOMAIN call.input[i] = {}

\* the enhanced percentage of a record under the preferences and the month
\* of the call
EnhancedOf(package) ==
  calculate_enhanced_compatibility_score(user_preferences, package,
                                         call.current_month).percentage

\* a may stand in front of b in the order (enhanced percentage, rating as a
\* number, review count as an integer) descending
MayPrecede(a, b) ==
  \/ FracLess(EnhancedOf(b), EnhancedOf(a))
  \/ /\ FracEq(EnhancedOf(a), EnhancedOf(b))
     /\ NumLess(PyFloat(b.rating).val, PyFloat(a.rating).val)
  \/ /\ FracEq(EnhancedOf(a), EnhancedOf(b))
     /\ NumEq(PyFloat(a.rating).val, PyFloat(b.rating).val)
     /\ PyInt(a.reviews_count).val >= PyInt(b.reviews_count).val

\* ret[k] is the copy of found[f[k]], and no package left out would have to
\* stand in front of a returned one
OnlineChosenBy(f, ret, found) ==
  /\ \A k, l \in 1..Len(ret) : k # l => f[k] # f[l]
  /\ \A k \in 1..Len(ret) :
       \A key \in DOMAIN found[f[k]] : ret[k][key] = found[f[k]][key]
  /\ \A j \in (1..Len(found)) \ {f[k] : k \in 1..Len(ret)} :
       \A k \in 1..Len(ret) : MayPrecede(ret[k], found[j])

\* C11: when the collaborator returns packages, find_online_packages returns
\* the first min(top_n, count) of them in descending order of enhanced
\* percentage, then of the rating as a number, then of the review count as
\* an integer.
C11_OnlineOrdered ==
  (Returned("find_online_packages") /\ call.found # <<>>) =>
    /\ Len(call.ret) = Min(call.top_n, Len(call.found))
    /\ \A k, l \in 1..Len(call.ret) :
         k < l => MayPrecede(call.ret[k], call.ret[l])
    /\ \E f \in [1..Len(call.ret) -> 1..Len(call.found)] :
         OnlineChosenBy(f, call.ret, call.found)

\* x carries the result of the enhanced scorer and the booking links under
\* the four keys of lines 618-621
CarriesEnhanced(x, s) ==
  /\ EnhancedFields \subseteq DOMAIN x
  /\ x.enhanced_compatibility_score = s.percentage
  /\ x.enhanced_raw_score = s.raw
  /\ x.enhanced_max_score = s.max
  /\ x.booking_links = generate_booking_links(x)
  /\ DOMAIN x.booking_links = BookingSites

\* the baseline ranking of x alone adds the baseline fields and leaves every
\* field x has as it is
KeptWhenRanked(x, ranked) ==
  /\ ~ranked.raised
  /\ \A i \in 1..Len(ranked.ret) :
       /\ ScoreFields \subseteq DOMAIN ranked.ret[i]
       /\ \A key \in DOMAIN x : ranked.ret[i][key] = x[key]

\* C12: every package find_online_packages returns carries the three enhanced
\* score fields as the enhanced scorer computes them and the booking links;
\* these keys are not the baseline keys, so a returned package has no
\* baseline field and keeps its enhanced fields when it is ranked by
\* find_top_packages as well.
C12_EnhancedFieldsCarried ==
  Returned("find_online_packages") =>
    /\ EnhancedFields \cap ScoreFields = {}
    /\ \A k \in 1..Len(call.ret) :
         /\ CarriesEnhanced(call.ret[k],
                            calculate_enhanced_compatibility_score(
                              user_preferences, call.ret[k],
                              call.current_month))
         /\ ScoreFields \cap DOMAIN call.ret[k] = {}
         /\ KeptWhenRanked(call.ret[k],
                           find_top_packages(user_preferences,
                                             GivenList(<<call.ret[k]>>), 1,
                                             packages, <<>>))

\* two packages found online come back with scores above the baseline's 15
C12_Witness ==
  /\ Returned("find_online_packages")
  /\ Len(call.ret) >= 2
  /\ \A k \in 1..Len(call.ret) :
       /\ call.ret[k].enhanced_raw_score > 150
       /\ call.ret[k].enhanced_max_score = 225

\* the rating text is one float() reads as a number from 3.5 to 5.0
RatingInRange(rating) ==
  /\ PyFloat(rating).ok
  /\ ~NumLess(PyFloat(rating).val, 35)
  /\ ~NumLess(50, PyFloat(rating).val)
  /\ PyFloat(rating).val # NaN

\* C13: after validate_package_data the rating of a package built from a
\* reply is a number in [3.5, 5.0]: a rating that does not parse or lies
\* below 3.5 or above 5.0 has become the default 4.2, a rating in the range
\* is kept.
C13_RatingClamped ==
  IsCall("validate_package_data") =>
    /\ RatingInRange(call.result.rating)
    /\ RatingInRange(call.before.rating) =>
         call.result.rating = call.before.rating
    /\ ~RatingInRange(call.before.rating) =>
         call.result.rating = PyStr(<<"4", ".", "2">>)

\* the review count text is one int() reads as an integer from 100 to 1000
ReviewsInRange(reviews_count) ==
  /\ PyInt(reviews_count).ok
  /\ PyInt(reviews_count).val >= 100
  /\ PyInt(reviews_count).val <= 1000

\* C14: after validate_package_data the review count of a package built
\* from a reply is an integer in [100, 1000]: a count that does not parse or
\* lies below 100 or above 1000 has become the default 300, a count in the
\* range is kept.
C14_ReviewsClamped ==
  IsCall("validate_package_data") =>
    /\ ReviewsInRange(call.result.reviews_count)
    /\ ReviewsInRange(call.before.reviews_count) =>
         call.result.reviews_count = call.before.reviews_count
    /\ ~ReviewsInRange(call.before.reviews_count) =>
         call.result.reviews_count = PyStr(<<"3", "0", "0">>)

\* a review count above 1000 has been replaced by 300
C14_Witness ==
  /\ IsCall("validate_package_data")
  /\ PyInt(call.before.reviews_count).ok
  /\ PyInt(call.before.reviews_count).val > 1000
  /\ call.result.reviews_count = PyStr(<<"3", "0", "0">>)

\* C15: a second call of find_top_packages with the same catalog and the
\* same preference set returns what the first call returned: the same
\* packages in the same order with the same scores.
C15_SecondPassSame ==
  IsCall("find_top_packages again") =>
    /\ call.raised = call.first_raised
    /\ call.ret = call.first

\* the first call generated the catalog and the second one ranks it again
C15_Witness ==
  /\ IsCall("find_top_packages again")
  /\ ~call.given
  /\ ~call.regenerated
  /\ packages \in Samples
  /\ Len(call.ret) >= 2
  /\ call.ret = call.first

\* the points the five other factors of the baseline scorer add
OtherThanDuration(package) ==
  DestinationMatching(user_preferences, package)
  + BudgetMatching(user_preferences, package)
  + TravelStyleMatching(user_preferences, package)
  + GroupSizeMatching(user_preferences, package)
  + AccommodationMatching(user_preferences, package)

\* the points of the call that are left for the duration factor
DurationPoints == call.result.raw - OtherThanDuration(call.package)

\* both durations of the call parse as integers
DurationsParse ==
  /\ ParseInt(user_preferences.duration).ok
  /\ ParseInt(call.package.duration).ok

\* the package duration minus the preferred one
DurationApart ==
  ParseInt(call.package.duration).val - ParseInt(user_preferences.duration).val

\* C16: the duration factor adds 2 when the preferred and the package
\* duration parse to equal integers, 1 when they are 1 or 2 apart and 0
\* otherwise; when one of them is no integer it adds 0 and the call still
\* returns its score.
C16_DurationFactor ==
  IsCall("calculate_compatibility_score") =>
    /\ DurationsParse /\ DurationApart = 0 => DurationPoints = 2
    /\ DurationsParse /\ DurationApart \in {-2, -1, 1, 2} => DurationPoints = 1
    /\ DurationsParse /\ DurationApart \notin -2..2 => DurationPoints = 0
    /\ ~DurationsParse => DurationPoints = 0 /\ call.result.max = 15

\* preference 7 against a package of 9 days earns 1 point
C16_Witness ==
  /\ IsCall("calculate_compatibility_score")
  /\ user_preferences.duration = <<"7">>
  /\ call.package.duration = <<"9">>
  /\ DurationPoints = 1

\* the keys of a preference set
SixKeys == {required_preferences[i] : i \in 1..6}

\* a dict holds each of the six keys once and no other key
HasSixKeys(d) ==
  /\ Len(d) = 6
  /\ {d[i].key : i \in 1..6} = SixKeys

SameParsed(a, b) == a.ok = b.ok /\ (a.ok => a.val = b.val)

\* a reloaded record equals the saved one on the fourteen attributes
SameRecord(saved, loaded) ==
  /\ DOMAIN loaded = {fieldnames[i].name : i \in 1..Len(fieldnames)}
  /\ \A name \in DOMAIN loaded \ {"rating", "reviews_count", "duration"} : loaded[name] = saved[name]
  /\ SameParsed(PyFloat(saved.rating), PyFloat(loaded.rating))
  /\ SameParsed(PyInt(saved.reviews_count), PyInt(loaded.reviews_count))
  /\ SameParsed(ParseInt(saved.duration), ParseInt(loaded.duration))

\* C18: package records saved with save_packages_to_csv and reloaded with
\* load_packages_from_csv come back as many as they were, in the same order,
\* each equal to the saved one on the fourteen attributes, with rating,
\* review count and duration compared by parsed value.
C18_RoundTrip ==
  (IsCall("load_packages_from_csv") /\ call.save_ok) =>
    /\ Len(call.ret) = Len(call.saved)
    /\ \A i \in 1..Len(call.saved) : SameRecord(call.saved[i], call.ret[i])

\* the round trip of records whose texts hold no carriage return
C18_RoundTripWithoutReturn ==
  (/\ IsCall("load_packages_from_csv")
   /\ call.save_ok
   /\ \A i \in 1..Len(call.saved) : \A j \in 1..Len(call.saved[i].activities) : call.saved[i].activities[j] # "\r") =>
    /\ Len(call.ret) = Len(call.saved)
    /\ \A i \in 1..Len(call.saved) : SameRecord(call.saved[i], call.ret[i])

\* the package blocks of a reply: the places where "Package " stands
BlockCount(response_text) ==
  Cardinality({i \in 1..(Len(response_text) - 7) : SubSeq(response_text, i, i + 7) = <<"P", "a", "c", "k", "a", "g", "e", " ">>})

\* no field of a record is missing or invalid
FieldsFilled(package) ==
  /\ \A name \in {"package_name", "activities", "price_range", "includes", "best_time"} : package[name] # NotSpecified
  /\ RatingInRange(package.rating)
  /\ ReviewsInRange(package.reviews_count)

\* C19: for a reply with k package blocks parse_openai_response returns
\* min(k, 3) records, none dropped for its fields, and in each record every
\* missing or invalid field has been replaced by its default.
C19_BlocksKept ==
  IsCall("parse_openai_response") =>
    /\ Len(call.ret) = Min(BlockCount(call.response_text), 3)
    /\ \A i \in 1..Len(call.ret) : FieldsFilled(call.ret[i])

\* the number of records alone
C19_CountKept ==
  IsCall("parse_openai_response") =>
    Len(call.ret) = Min(BlockCount(call.response_text), 3)

\* the claim on the replies in which no rating reads as NaN
C19_BlocksKeptWithoutNaN ==
  (/\ IsCall("parse_openai_response")
   /\ \A i \in 1..Len(call.ret) : call.ret[i].rating.chars # <<"N", "a", "N">>) =>
    /\ Len(call.ret) = Min(BlockCount(call.response_text), 3)
    /\ \A i \in 1..Len(call.ret) : FieldsFilled(call.ret[i])

\* the points of the call that are left for the budget factor
BudgetPoints ==
  call.result.raw - (DestinationMatching(user_preferences, call.package)
                     + DurationMatching(user_preferences, call.package)
                     + TravelStyleMatching(user_preferences, call.package)
                     + GroupSizeMatching(user_preferences, call.package)
                     + AccommodationMatching(user_preferences, call.package))

\* the lower-cased text holds one of the words
HoldsOneOf(words, text) == \E word \in words : IsSubstr(word, Lower(text))

BudgetLike ==
  /\ HoldsOneOf({<<"b", "u", "d", "g", "e", "t">>, <<"c", "h", "e", "a", "p">>, <<"l", "o", "w">>}, call.package.budget)
  /\ HoldsOneOf({<<"b", "u", "d", "g", "e", "t">>, <<"c", "h", "e", "a", "p">>, <<"l", "o", "w">>, <<"a", "f", "f", "o", "r", "d", "a", "b", "l", "e">>}, user_preferences.budget)

LuxuryLike ==
  /\ HoldsOneOf({<<"l", "u", "x", "u", "r", "y">>, <<"p", "r", "e", "m", "i", "u", "m">>}, call.package.budget)
  /\ HoldsOneOf({<<"l", "u", "x", "u", "r", "y">>, <<"h", "i", "g", "h">>, <<"p", "r", "e", "m", "i", "u", "m">>, <<"e", "x", "p", "e", "n", "s", "i", "v", "e">>}, user_preferences.budget)

\* C20: the budget factor adds 3 on case-insensitive equality; otherwise 2
\* when both sides are budget-like or both are luxury-like; otherwise 1 when
\* the package budget is moderate and the preference holds none of the
\* budget-like or luxury-like keywords; otherwise 0.
C20_BudgetFactor ==
  IsCall("calculate_compatibility_score") =>
    BudgetPoints =
      IF Lower(user_preferences.budget) = Lower(call.package.budget) THEN 3
      ELSE IF BudgetLike \/ LuxuryLike THEN 2
      ELSE IF /\ HoldsOneOf({<<"m", "o", "d", "e", "r", "a", "t", "e">>}, call.package.budget)
              /\ ~HoldsOneOf({<<"b", "u", "d", "g", "e", "t">>, <<"c", "h", "e", "a", "p">>, <<"l", "o", "w">>, <<"a", "f", "f", "o", "r", "d", "a", "b", "l", "e">>, <<"l", "u", "x", "u", "r", "y">>, <<"h", "i", "g", "h">>, <<"p", "r", "e", "m", "i", "u", "m">>, <<"e", "x", "p", "e", "n", "s", "i", "v", "e">>}, user_preferences.budget) THEN 1
      ELSE 0

\* the factor with the four keywords line 536 excludes
C20_BudgetFactorAsCoded ==
  IsCall("calculate_compatibility_score") =>
    BudgetPoints =
      IF Lower(user_preferences.budget) = Lower(call.package.budget) THEN 3
      ELSE IF BudgetLike \/ LuxuryLike THEN 2
      ELSE IF /\ HoldsOneOf({<<"m", "o", "d", "e", "r", "a", "t", "e">>}, call.package.budget)
              /\ ~HoldsOneOf({<<"b", "u", "d", "g", "e", "t">>, <<"l", "u", "x", "u", "r", "y">>, <<"c", "h", "e", "a", "p">>, <<"e", "x", "p", "e", "n", "s", "i", "v", "e">>}, user_preferences.budget) THEN 1
      ELSE 0

\* the points of the call that are left for the destination factor
DestinationPoints ==
  call.result.raw - (BudgetMatching(user_preferences, call.package)
                     + DurationMatching(user_preferences, call.package)
                     + TravelStyleMatching(user_preferences, call.package)
                     + GroupSizeMatching(user_preferences, call.package)
                     + AccommodationMatching(user_preferences, call.package))

\* the lower-cased preferred destination stands in the lower-cased
\* destination of the package of the call
DestinationWithin ==
  IsSubstr(Lower(user_preferences.destination), Lower(call.package.destination))

\* a whitespace-separated token of the preference stands in it
DestinationTokenWithin ==
  \E i \in 1..Len(Split(Lower(user_preferences.destination))) :
    IsSubstr(Split(Lower(user_preferences.destination))[i], Lower(call.package.destination))

\* C21: the destination factor adds 3 when the lower-cased preference is a
\* substring of the lower-cased package destination, otherwise 2 when a
\* whitespace-separated token of the preference occurs in it, otherwise 0.
C21_DestinationFactor ==
  IsCall("calculate_compatibility_score") =>
    DestinationPoints = IF DestinationWithin THEN 3
                        ELSE IF DestinationTokenWithin THEN 2
                        ELSE 0

\* "Old Rome" against "Rome": no substring, the token "rome" earns 2
C21_Witness ==
  /\ IsCall("calculate_compatibility_score")
  /\ user_preferences.destination = <<"O", "l", "d", " ", "R", "o", "m", "e">>
  /\ call.package.destination = <<"R", "o", "m", "e">>
  /\ ~DestinationWithin
  /\ DestinationPoints = 2

\* the tenths of a point of an enhanced raw score that are left for the
\* seasonal factor
SeasonPoints(raw, package) ==
  raw - (calculate_compatibility_score(user_preferences, package).raw * Tenth
         + RatingWeight(PyFloat(package.rating).val)
         + ReviewsWeight(PyInt(package.reviews_count).val)
         + PriceCompetitiveness(user_preferences, package)
         + InclusionsQuality(package))

\* what the seasonal factor is said to add, in tenths
SeasonExpected(package) ==
  IF Lower(package.best_time) \in {current_season(call.current_month), <<"y", "e", "a", "r", "-", "r", "o", "u", "n", "d">>} THEN 10
  ELSE IF Lower(package.best_time) = <<"a", "l", "l", " ", "s", "e", "a", "s", "o", "n", "s">> THEN 7
  ELSE 0

\* C22: the seasonal factor of the enhanced scorer adds 1 when the best time
\* of the package is the current season or "Year-round", 0.7 when it is the
\* alternate phrasing "all seasons", and 0 otherwise (points in tenths), both
\* in a call of the scorer and in the scores of the packages found online.
C22_SeasonalFactor ==
  /\ (IsCall("calculate_enhanced_compatibility_score") /\ ~call.result.raised) =>
       SeasonPoints(call.result.raw, call.package) = SeasonExpected(call.package)
  /\ Returned("find_online_packages") =>
       \A k \in 1..Len(call.ret) :
         SeasonPoints(call.ret[k].enhanced_raw_score, call.ret[k]) = SeasonExpected(call.ret[k])

\* a package found online whose best time reads "all seasons" earned 0.7
C22_Witness ==
  /\ Returned("find_online_packages")
  /\ \E k \in 1..Len(call.ret) :
       /\ call.ret[k].best_time = <<"a", "l", "l", " ", "s", "e", "a", "s", "o", "n", "s">>
       /\ SeasonPoints(call.ret[k].enhanced_raw_score, call.ret[k]) = 7

\* a package whose best time is the season of the month earned 1
C22_ReachedSeason ==
  /\ IsCall("calculate_enhanced_compatibility_score")
  /\ ~call.result.raised
  /\ Lower(call.package.best_time) = current_season(call.current_month)
  /\ SeasonPoints(call.result.raw, call.package) = 10

\* a package whose best time is "Year-round" earned 1
C22_ReachedYearRound ==
  /\ IsCall("calculate_enhanced_compatibility_score")
  /\ ~call.result.raised
  /\ call.package.best_time = <<"Y", "e", "a", "r", "-", "r", "o", "u", "n", "d">>
  /\ SeasonPoints(call.result.raw, call.package) = 10

\* a package whose best time is another season earned 0
C22_ReachedNone ==
  /\ IsCall("calculate_enhanced_compatibility_score")
  /\ ~call.result.raised
  /\ SeasonPoints(call.result.raw, call.package) = 0

\* the records of a batch have pairwise distinct identifiers
DistinctIds(batch) ==
  \A i, j \in 1..Len(batch) : i # j => batch[i].package_id # batch[j].package_id

\* C23: package identifiers are unique within a batch: the catalog
\* generate_sample_packages(n) leaves holds n records with pairwise distinct
\* package_id values, and the records parse_openai_response returns have
\* pairwise distinct package_id values.
C23_IdsUnique ==
  /\ (IsCall("find_top_packages") /\ call.regenerated) =>
       /\ Len(packages) = NumSample
       /\ DistinctIds(packages)
  /\ IsCall("parse_openai_response") => DistinctIds(call.ret)
  /\ \A sample \in Samples : Len(sample) = NumSample /\ DistinctIds(sample)

\* a generated catalog of at least two records and a reply parsed to three
C23_Witness ==
  \/ /\ IsCall("find_top_packages")
     /\ call.regenerated
     /\ Len(packages) >= 2
     /\ packages[1].package_id = <<"P", "K", "G", "0", "0", "1">>
     /\ packages[2].package_id = <<"P", "K", "G", "0", "0", "2">>
  \/ /\ IsCall("parse_openai_response")
     /\ Len(call.ret) = 3
     /\ call.ret[3].package_id = <<"O", "N", "L", "I", "N", "E", "0", "0", "3">>

\* C24: after the user rejects the updated preferences at the end of
\* handle_preference_corrections exactly one more round is allowed: the
\* correction dialogue runs at most two rounds in total, however often the
\* user keeps answering no.
C24_AtMostTwoRounds ==
  IsCall("get_user_preferences") =>
    (call.at \in {"correcting", "reconfirming", "returned"} => call.rounds <= 2)

\* the keys the replies of the conversation read from a package
ReplyKeys ==
  {"package_name", "destination", "price_range", "duration", "travel_style", "group_size", "accommodation_type", "rating", "reviews_count", "activities", "includes", "best_time", "compatibility_score"}

\* C25: every package list TravelAgent.run hands to start_conversation, from
\* the local ranking or from the online fallback, consists of packages that
\* carry the compatibility_score field the replies read; so a question is
\* always answered with a reply and never ends in the error message of the
\* loop.
C25_QuestionsAnswered ==
  /\ pc \in {"recommended", "conversing", "done"} =>
       \A i \in 1..Len(top_packages) : "compatibility_score" \in DOMAIN top_packages[i]
  /\ IsCall("start_conversation") => call.result # "error"

\* the local ranking alone hands over packages that carry the field, and
\* a question about them is answered
C25_LocalAnswered ==
  (\E i \in 1..Len(top_packages) : "raw_score" \in DOMAIN top_packages[i]) =>
    /\ \A i \in 1..Len(top_packages) : ReplyKeys \subseteq DOMAIN top_packages[i]
    /\ IsCall("start_conversation") => call.result # "error"

C25_LocalReached ==
  /\ IsCall("start_conversation")
  /\ call.reply = "recommendation"
  /\ top_packages # <<>>

\* an exit keyword is typed as a word of the input
ExitRequested(user_input) ==
  LET words == Split(Lower(user_input))
  IN \E i \in 1..Len(words) : words[i] \in {<<"e", "x", "i", "t">>, <<"c", "l", "o", "s", "e">>, <<"e", "n", "d">>, <<"q", "u", "i", "t">>, <<"g", "o", "o", "d", "b", "y", "e">>, <<"b", "y", "e">>}

\* C29: start_conversation ends only on an exit request (an exit keyword typed
\* as a word, or a keyboard interrupt): every other non-empty input, also one
\* that holds an exit keyword only inside another word such as "recommend" or
\* "weekend", is passed to get_ai_package_recommendation and the loop prompts
\* again.
C29_EndsOnExitOnly ==
  IsCall("start_conversation") =>
    /\ call.result = "ended" <=> (call.interrupt \/ ExitRequested(call.user_input))
    /\ (~call.interrupt /\ call.user_input # <<>> /\ ~ExitRequested(call.user_input)) =>
         (call.result \in {"answered", "error"} /\ pc = "conversing")

\* the baseline raw score of a record under the preferences of the state
RawOf(package) == calculate_compatibility_score(user_preferences, package).raw

\* the positions of a list whose package earns at least one point
Earning(list) == {i \in 1..Len(list) : RawOf(list[i]) >= 1}

C26_MixedReached ==
  /\ Returned("find_top_packages")
  /\ call.top_n > 0
  /\ Earning(call.scored) # {}
  /\ Earning(call.scored) # 1..Len(call.scored)
  /\ call.ret # <<>>

\* the six values of the preference set are the sentinel
AllUnresolved ==
  \A key \in DOMAIN user_preferences : user_preferences[key] = NotSpecified

\* C27: a preference set whose six values are all the sentinel
\* "Not specified" earns the baseline raw score 0 against every package
\* record, so find_top_packages returns the empty list for it and the online
\* fallback is invoked.
C27_SentinelEarnsNothing ==
  AllUnresolved =>
    /\ IsCall("calculate_compatibility_score") => call.result.raw = 0
    /\ Returned("find_top_packages") => (call.ret = <<>> /\ Earning(call.scored) = {})
    /\ (IsCall("generate_recommendations") /\ ~call.local_raised) => call.online_invoked

\* the key has a preference
Bound(preferences, key) == \E j \in 1..Len(preferences) : preferences[j].key = key

\* a pass of the clarification loop asks for a key that has no preference
\* yet, at most for the third time, and goes on with the same key once more,
\* with a later key or with the confirmation, the keys left being bound
PassAdvances ==
  /\ call.attempts < max_attempts_per_preference
  /\ ~Bound(call.preferences, required_preferences[call.key])
  /\ call'.at = "asking" =>
       \/ /\ call'.key = call.key
          /\ call'.attempts = call.attempts + 1
          /\ call'.preferences = call.preferences
       \/ /\ call'.key > call.key
          /\ call'.attempts = 0
          /\ \A i \in 1..(call'.key - 1) : Bound(call'.preferences, required_preferences[i])
  /\ call'.at = "confirming" =>
       \A i \in 1..6 : Bound(call'.preferences, required_preferences[i])
  /\ (call'.at \in {"asking", "confirming"} /\ call.attempts = max_attempts_per_preference - 1) =>
       \/ call'.at = "confirming"
       \/ call'.key > call.key
  /\ (call'.at \in {"asking", "confirming"} /\ call'.preferences # call.preferences) =>
       \A j \in 1..Len(call.preferences) : call'.preferences[j] = call.preferences[j]

\* C28: in get_user_preferences a preference that is bound is not asked about
\* again and every other preference is asked about at most 3 times, an empty
\* answer using up an attempt; after the third failed attempt it is set to
\* "Not specified" and the dialogue moves to the next key, so the
\* clarification phase asks at most 18 questions and always reaches the
\* confirmation.
C28_ClarificationEnds ==
  [][(call.op = "get_user_preferences" /\ call.at = "asking") =>
       (PassAdvances /\ call'.at \in {"asking", "confirming"})]_vars

\* the same, a pass being allowed to end in the KeyError of line 191
C28_ClarificationEndsOrRaises ==
  [][(call.op = "get_user_preferences" /\ call.at = "asking") =>
       (PassAdvances /\ call'.at \in {"asking", "confirming", "raised"})]_vars

\* the third attempt for the last key has failed and the confirmation follows
C28_DefaultedReached ==
  /\ IsCall("get_user_preferences")
  /\ call.at = "confirming"
  /\ call.preferences[6] = [key |-> "accommodation_type", value |-> PyStr(NotSpecified)]

\* C30: every package parse_openai_response builds holds the six preference
\* values of the preference set it was built for, so its baseline raw score
\* against that preference set is 15 when the duration parses as an integer
\* and 13 otherwise, whatever the reply text of the collaborator.
C30_OwnPreferencesMatched ==
  IsCall("parse_openai_response") =>
    \A k \in 1..Len(call.ret) :
      /\ \A key \in DOMAIN user_preferences : call.ret[k][key] = user_preferences[key]
      /\ RawOf(call.ret[k]) = IF ParseInt(user_preferences.duration).ok THEN 15 ELSE 13

\* packages built for a duration that parses have been scored 15
C30_Witness ==
  /\ IsCall("parse_openai_response")
  /\ Len(call.ret) >= 2
  /\ ParseInt(user_preferences.duration).ok
  /\ RawOf(call.ret[2]) = 15

\* packages built for a duration that does not parse have been scored 13
C30_UnparsedReached ==
  /\ IsCall("parse_openai_response")
  /\ call.ret # <<>>
  /\ ~ParseInt(user_preferences.duration).ok
  /\ ~AllUnresolved
  /\ RawOf(call.ret[1]) = 13

====
